---- MODULE Spec2Model ----
(***************************************************************************)
(* Model of dapper_python.dataset_generation.parsing.cpp: the C/C++        *)
(* function extractor (CPPTreeParser.parse_functions), the signature       *)
(* reconstructor (CPPFunctionParser.parse_function, _parse_type) and the   *)
(* text normalizer (normalize_string).                                     *)
(*                                                                         *)
(* A string is a sequence of characters.  A character is a one-element     *)
(* TLA+ string; an element such as "int" stands for a run of one or more   *)
(* ordinary characters (neither whitespace nor one of * & , < >), which    *)
(* no regular expression of the program tells apart.                       *)
(***************************************************************************)
EXTENDS Integers, Sequences, FiniteSets, TLC

VARIABLES
    tree,       \* CPPTreeParser.tree
    idx,        \* parse_functions: index of the next match of the cursor
    out,        \* parse_functions: the records yielded so far, each with the
                \* function_definition node it was built from
    raised,     \* parse_functions: the exception that reached the consumer
    pc,         \* parse_functions: "iterating", "done", "raised" ("idle": unused)
    arg,        \* normalize_string: the argument of the first call
    string,     \* normalize_string: the value of the local `string`
    npc,        \* normalize_string: position ("call", "pass1", "pass2")
    lhs,        \* the FunctionSymbol on the left of == / given to hash()
    rhs,        \* the FunctionSymbol on the right of ==
    returned,   \* what the comparison or the hashing returned or raised
    w_node,     \* ancestors: the argument `node`
    w_current,  \* ancestors: the local `current`
    w_yielded,  \* ancestors: the nodes yielded so far
    w_pc,       \* ancestors: "start", "loop", "done" ("idle": unused)
    b_callables, \* bounded_run: the callables of _iter ("returns", "raises")
    b_bound,    \* bounded_run: the local `bound`
    b_it,       \* bounded_run: how many callables `it` has handed out
    b_futures,  \* bounded_run: the local set `futures`
    b_done,     \* bounded_run: what is left to yield of the local set `done`
    b_state,    \* the pool: the state of the future of each callable
    b_submitted, \* the pool: the callables given to submit(), in order
    b_yielded,  \* bounded_run: the futures yielded so far
    b_pc,       \* bounded_run: "start", "waiting", "suspended", "done"
    c_input,    \* chunked_iter: the items of `iterable`
    c_size,     \* chunked_iter: `chunk_size`
    c_pos,      \* peekable: how many items were taken from the iterable
    c_cache,    \* peekable: the items peeked and not yet handed out
    c_left,     \* islice: how many items the newest chunk may still take
    c_chunks,   \* the consumer: the items it took from each chunk
    c_full,     \* the consumer: every chunk was consumed before the next
    c_pc,       \* chunked_iter: "start", "suspended", "done"
    r_retries,  \* get_with_retry: `retries`
    r_attempt,  \* get_with_retry: `attempt`
    r_outcomes, \* the outcome of each request made so far
    r_slept,    \* the arguments time.sleep() was called with
    r_result,   \* get_with_retry: what it returned or raised
    r_pc        \* get_with_retry: "loop", "returned", "raised"

vars == <<tree, idx, out, raised, pc, arg, string, npc, lhs, rhs, returned,
          w_node, w_current, w_yielded, w_pc,
          b_callables, b_bound, b_it, b_futures, b_done, b_state, b_submitted,
          b_yielded, b_pc,
          c_input, c_size, c_pos, c_cache, c_left, c_chunks, c_full, c_pc,
          r_retries, r_attempt, r_outcomes, r_slept, r_result, r_pc>>

symbolVars == <<lhs, rhs, returned>>

walkVars == <<w_node, w_current, w_yielded, w_pc>>

parserVars == <<tree, idx, out, raised, pc, arg, string, npc>>

poolVars == <<b_callables, b_bound, b_it, b_futures, b_done, b_state, b_submitted,
              b_yielded, b_pc>>

chunkVars == <<c_input, c_size, c_pos, c_cache, c_left, c_chunks, c_full, c_pc>>

retryVars == <<r_retries, r_attempt, r_outcomes, r_slept, r_result, r_pc>>

utilVars == <<poolVars, chunkVars, retryVars>>

(***************************************************************************)
(* Bounds                                                                  *)
(***************************************************************************)
MaxLen == 4     \* longest input string given to normalize_string
MaxFuncs == 2   \* most function definitions in one source file
MaxScopes == 2  \* deepest nesting of namespaces and classes
MaxDepth == 2   \* longest chain of declarators around a function declarator
MaxParams == 2  \* most parameters of one function

(***************************************************************************)
(* Characters                                                              *)
(***************************************************************************)
Whitespace == {" ", "\n", "\t"}

IsSpace(c) == c \in Whitespace

PtrRef == {"*", "&"}

Alphabet == {" ", "\n", "\t", "*", ",", "<", ">", "a"}

\* All strings over Alphabet of length at most n
Strings(n) == UNION {[1..k -> Alphabet] : k \in 0..n}

(***************************************************************************)
(* Regular-expression helpers (re.sub semantics: leftmost, greedy,         *)
(* non-overlapping matches over the string as it was before the call)      *)
(***************************************************************************)
\* The character that follows the whitespace run containing position i,
\* or "" when the run extends to the end of the string.
RECURSIVE AfterRun(_, _)
AfterRun(s, i) ==
    IF i > Len(s) THEN ""
    ELSE IF IsSpace(s[i]) THEN AfterRun(s, i + 1)
    ELSE s[i]

\* The character that precedes the whitespace run containing position i,
\* or "" when the run starts the string.
RECURSIVE BeforeRun(_, _)
BeforeRun(s, i) ==
    IF i < 1 THEN ""
    ELSE IF IsSpace(s[i]) THEN BeforeRun(s, i - 1)
    ELSE s[i]

\* s from position i on, with every position in the set drop removed
RECURSIVE RemoveAt(_, _, _)
RemoveAt(s, i, drop) ==
    IF i > Len(s) THEN <<>>
    ELSE (IF i \in drop THEN <<>> ELSE <<s[i]>>) \o RemoveAt(s, i + 1, drop)

\* re.compile(r"\n") -> " "
SubNewline(s) == [i \in 1..Len(s) |-> IF s[i] = "\n" THEN " " ELSE s[i]]

\* The same rule written without the "+": only the whitespace character
\* directly before the marker is removed
SubPtrSpacingOneChar(s) ==
    RemoveAt(s, 1, {i \in 1..Len(s) : IsSpace(s[i]) /\ i < Len(s) /\ s[i + 1] \in PtrRef})

\* The same rule with a lookahead for "&" only
SubPtrSpacingRefOnly(s) ==
    RemoveAt(s, 1, {i \in 1..Len(s) : IsSpace(s[i]) /\ AfterRun(s, i) = "&"})

\* The same rule written for blanks only: " +(?=[*&])"
SubPtrSpacingBlanksOnly(s) ==
    RemoveAt(s, 1, {i \in 1..Len(s) : s[i] = " " /\ AfterRun(s, i) \in PtrRef})

\* re.compile(r"\s+(?=[*&])") -> ""
SubPtrSpacing(s) ==
    RemoveAt(s, 1, {i \in 1..Len(s) : IsSpace(s[i]) /\ AfterRun(s, i) \in PtrRef})

\* re.compile(r",(?=\S)") -> ", "
RECURSIVE SubCommaFrom(_, _)
SubCommaFrom(s, i) ==
    IF i > Len(s) THEN <<>>
    ELSE (IF s[i] = "," /\ i < Len(s) /\ ~IsSpace(s[i + 1])
             THEN <<",", " ">> ELSE <<s[i]>>) \o SubCommaFrom(s, i + 1)

\* The same rule with the lookahead inverted: ",(?=\s)"
RECURSIVE SubCommaBeforeSpace(_)
SubCommaBeforeSpace(s) ==
    IF s = <<>> THEN <<>>
    ELSE (IF Head(s) = "," /\ Len(s) > 1 /\ IsSpace(s[2])
             THEN <<",", " ">> ELSE <<Head(s)>>) \o SubCommaBeforeSpace(Tail(s))

SubComma(s) == SubCommaFrom(s, 1)

\* The same rule without its first alternative: "\s+(?=>)"
SubTemplateSpacingClosingOnly(s) ==
    RemoveAt(s, 1, {i \in 1..Len(s) : IsSpace(s[i]) /\ AfterRun(s, i) = ">"})

\* re.compile(r"(?<=<)\s+|\s+(?=>)") -> ""
SubTemplateSpacing(s) ==
    RemoveAt(s, 1, {i \in 1..Len(s) : IsSpace(s[i]) /\
                     (BeforeRun(s, i) = "<" \/ AfterRun(s, i) = ">")})

\* re.compile(r"\s+") -> " "
RECURSIVE SubMultiSpaceFrom(_, _)
SubMultiSpaceFrom(s, i) ==
    IF i > Len(s) THEN <<>>
    ELSE IF ~IsSpace(s[i]) THEN <<s[i]>> \o SubMultiSpaceFrom(s, i + 1)
    ELSE IF i > 1 /\ IsSpace(s[i - 1]) THEN SubMultiSpaceFrom(s, i + 1)
    ELSE <<" ">> \o SubMultiSpaceFrom(s, i + 1)

SubMultiSpace(s) == SubMultiSpaceFrom(s, 1)

\* str.strip()
RECURSIVE LStrip(_)
LStrip(s) == IF s # <<>> /\ IsSpace(Head(s)) THEN LStrip(Tail(s)) ELSE s

RECURSIVE RStrip(_)
RStrip(s) ==
    IF s # <<>> /\ IsSpace(s[Len(s)]) THEN RStrip(SubSeq(s, 1, Len(s) - 1)) ELSE s

strip(s) == RStrip(LStrip(s))

\* CPPFunctionParser._CLEANUP_REGEXES, applied in the order listed
CLEANUP_REGEXES(s) ==
    SubMultiSpace(SubTemplateSpacing(SubComma(SubPtrSpacing(SubNewline(s)))))

\* CPPFunctionParser.normalize_string
normalize_string(s) == strip(CLEANUP_REGEXES(s))

(***************************************************************************)
(* Syntax trees (tree_sitter.Tree / tree_sitter.Node).                     *)
(*                                                                         *)
(* A node is a record: its kind tag `type`, the field name under which it  *)
(* is a child of its parent ("" for none), whether it is a MISSING         *)
(* placeholder, the source text between it and its preceding sibling       *)
(* (`gap`, whitespace the tree has no node for), its own source text when  *)
(* it is a leaf (`tok`), and its ordered children.  A node of a tree is    *)
(* referred to by its path from the root: the sequence of child indices.   *)
(***************************************************************************)
None == <<0>>       \* Python's None as a node reference; no path contains 0

BadByte == "0xFF"   \* a byte that is not valid UTF-8

Leaf(type, field, gap, tok) ==
    [type |-> type, field |-> field, missing |-> FALSE, gap |-> gap,
     tok |-> tok, children |-> <<>>]

Inner(type, field, gap, children) ==
    [type |-> type, field |-> field, missing |-> FALSE, gap |-> gap,
     tok |-> <<>>, children |-> children]

\* An anonymous token such as "(" or "*"
Tok(c) == Leaf(c, "", <<>>, <<c>>)

Min(S) == CHOOSE x \in S : \A y \in S : x <= y

Range(s) == {s[i] : i \in 1..Len(s)}

Reverse(s) == [i \in 1..Len(s) |-> s[Len(s) + 1 - i]]

\* Node.text: the source bytes the node spans
RECURSIVE Text(_)
RECURSIVE TextOfChildren(_, _)
Text(n) == IF n.children = <<>> THEN n.tok ELSE TextOfChildren(n.children, 1)

TextOfChildren(cs, i) ==
    IF i > Len(cs) THEN <<>>
    ELSE (IF i > 1 THEN cs[i].gap ELSE <<>>) \o Text(cs[i])
             \o TextOfChildren(cs, i + 1)

RECURSIVE NodeAt(_, _)
NodeAt(t, p) == IF p = <<>> THEN t ELSE NodeAt(t.children[Head(p)], Tail(p))

\* Node.type, Node.text, Node.children, Node.parent, Node.child_by_field_name
NodeType(t, p) == NodeAt(t, p).type

NodeText(t, p) == Text(NodeAt(t, p))

NodeChildren(t, p) == [i \in 1..Len(NodeAt(t, p).children) |-> Append(p, i)]

NodeParent(p) == IF p = <<>> THEN None ELSE SubSeq(p, 1, Len(p) - 1)

child_by_field_name(t, p, f) ==
    LET cs == NodeAt(t, p).children
        I == {i \in 1..Len(cs) : cs[i].field = f}
    IN  IF I = {} THEN None ELSE Append(p, Min(I))

\* utils.ast.ancestors: parent -> grandparent -> ... -> root
RECURSIVE ancestors_loop(_)
ancestors_loop(current) ==
    IF current = None THEN <<>>
    ELSE <<current>> \o ancestors_loop(NodeParent(current))

ancestors(node) == ancestors_loop(NodeParent(node))

\* The nodes of the subtree of p in the order a query cursor visits them
RECURSIVE Preorder(_, _)
RECURSIVE PreorderChildren(_, _, _)
Preorder(t, p) == <<p>> \o PreorderChildren(t, p, 1)

PreorderChildren(t, p, i) ==
    IF i > Len(NodeAt(t, p).children) THEN <<>>
    ELSE Preorder(t, Append(p, i)) \o PreorderChildren(t, p, i + 1)

(***************************************************************************)
(* Pattern catalog                                                         *)
(***************************************************************************)
\* CPPTreeParser._ERROR_QUERY: "[(ERROR) (MISSING)] @error"
ERROR_QUERY(n) == n.type = "ERROR" \/ n.missing

\* CPPTreeParser._FUNCTION_QUERY: a function_definition with a type field and
\* a declarator field
FUNCTION_QUERY(n) ==
    /\ n.type = "function_definition"
    /\ \E i \in 1..Len(n.children) : n.children[i].field = "type"
    /\ \E i \in 1..Len(n.children) : n.children[i].field = "declarator"

\* CPPFunctionParser._FUNCTION_DECLARATOR_QUERY
FUNCTION_DECLARATOR_QUERY(n) == n.type = "function_declarator"

\* CPPFunctionParser._FUNCTION_IDENTIFIER_QUERY
FUNCTION_IDENTIFIER_QUERY(n) ==
    n.type \in {"identifier", "field_identifier", "operator_name"}

\* CPPFunctionParser._FUNCTION_PARAMETER_QUERY: "parameters: (parameter_list)"
FUNCTION_PARAMETER_QUERY(n) ==
    n.type = "parameter_list" /\ n.field = "parameters"

\* A query that also takes a pointer or reference token for the declarator
IDENTIFIER_QUERY_or_marker(n) == n.type \in {"identifier", "*", "&", "&&"}

\* The identifier query of _parse_type for a parameter: "(identifier)"
IDENTIFIER_QUERY(n) == n.type = "identifier"

\* CPPTreeParser._PREPROC_QUERY: a preproc_def with a name field and a value
\* field
PREPROC_QUERY(n) ==
    /\ n.type = "preproc_def"
    /\ \E i \in 1..Len(n.children) : n.children[i].field = "name"
    /\ \E i \in 1..Len(n.children) : n.children[i].field = "value"

\* CPPTreeParser._STRING_LITERAL_QUERY
STRING_LITERAL_QUERY(n) == n.type = "string_literal"

\* Whether the node n matches the query of the given name
QueryMatches(query, n) ==
    CASE query = "_ERROR_QUERY" -> ERROR_QUERY(n)
      [] query = "_PREPROC_QUERY" -> PREPROC_QUERY(n)
      [] query = "_STRING_LITERAL_QUERY" -> STRING_LITERAL_QUERY(n)
      [] query = "_FUNCTION_QUERY" -> FUNCTION_QUERY(n)
      [] query = "_FUNCTION_DECLARATOR_QUERY" -> FUNCTION_DECLARATOR_QUERY(n)
      [] query = "_FUNCTION_IDENTIFIER_QUERY" -> FUNCTION_IDENTIFIER_QUERY(n)
      [] query = "_FUNCTION_PARAMETER_QUERY" -> FUNCTION_PARAMETER_QUERY(n)
      [] query = "identifier_query" -> IDENTIFIER_QUERY(n)

\* QueryCursor(query).matches(node) for a query of one node pattern: the
\* matched nodes of the subtree of node, in order
Matches(t, node, query) ==
    SelectSeq(Preorder(t, node), LAMBDA q : QueryMatches(query, NodeAt(t, q)))

(***************************************************************************)
(* Source files.  The trees given to the parser are the trees of the       *)
(* C/C++ sources described by SourceFiles below: each source is a sequence *)
(* of function definitions, each one described by a record                 *)
(*   scopes    the enclosing scopes, outermost first                       *)
(*   quals     the leading type qualifiers                                 *)
(*   base      the declared type                                           *)
(*   wrappers  the declarators wrapped around the function declarator,     *)
(*             outermost first                                             *)
(*   name      the kind of the function declarator's declarator field      *)
(*   params    the parameters                                              *)
(*   trailing  what follows the parameter list                             *)
(*   body      the kind of body                                            *)
(***************************************************************************)
SeqsUpTo(S, n) == UNION {[1..k -> S] : k \in 0..n}

ScopeNames == <<"A", "B", "C", "D">>
FnNames == <<"f", "g", "h", "k">>
ParamNames == <<"x", "y", "z", "w">>

ScopeKinds == {"namespace", "anonymous_namespace", "class", "struct"}

\* namespace A { ... } / namespace { ... } / class A { ... } / struct A { ... }
ScopeNode(kind, i, inner) ==
    LET ns == kind \in {"namespace", "anonymous_namespace"}
        nodeType == IF ns THEN "namespace_definition"
                    ELSE IF kind = "class" THEN "class_specifier"
                    ELSE "struct_specifier"
        keyword == IF ns THEN "namespace" ELSE kind
        name == IF kind = "anonymous_namespace" THEN <<>>
                ELSE <<Leaf(IF ns THEN "namespace_identifier" ELSE "type_identifier",
                            "name", <<" ">>, <<ScopeNames[i]>>)>>
        body == Inner(IF ns THEN "declaration_list" ELSE "field_declaration_list",
                      "body", <<>>,
                      <<Tok("{"), inner, Tok("}")>>)
    IN  Inner(nodeType, "", <<>>, <<Tok(keyword)>> \o name \o <<body>>)

RECURSIVE InScopes(_, _, _)
InScopes(scopes, i, fn) ==
    IF i > Len(scopes) THEN fn
    ELSE ScopeNode(scopes[i], i, InScopes(scopes, i + 1, fn))

BaseKinds == {"int", "map", "function"}

\* The parameter list of the function type inside std::function<void(char)>
InnerParameterList ==
    Inner("parameter_list", "parameters", <<>>,
          <<Tok("("),
            Inner("parameter_declaration", "", <<>>,
                  <<Leaf("primitive_type", "type", <<>>, <<"char">>)>>),
            Tok(")")>>)

\* The node of the type field: int, map<k,\nv >, function<void(char)>, or a
\* type name that is not valid UTF-8
TypeNode(base, gap) ==
    CASE base = "int" -> Leaf("primitive_type", "type", gap, <<"int">>)
      [] base = "map" ->
            Leaf("template_type", "type", gap,
                 <<"map", "<", "k", ",", "\n", "v", " ", ">">>)
      [] base = "function" ->
            Inner("template_type", "type", gap,
              <<Leaf("type_identifier", "name", <<>>, <<"function">>),
                Inner("template_argument_list", "arguments", <<>>,
                  <<Tok("<"),
                    Inner("type_descriptor", "", <<>>,
                      <<Leaf("primitive_type", "type", <<>>, <<"void">>),
                        Inner("abstract_function_declarator", "declarator", <<>>,
                              <<InnerParameterList>>)>>),
                    Tok(">")>>)>>)
      [] base = "undecodable" ->
            Leaf("type_identifier", "type", gap, <<BadByte>>)

QualifierNodes(quals, firstGap) ==
    [i \in 1..Len(quals) |->
        Leaf("type_qualifier", "", IF i = 1 THEN firstGap ELSE <<" ">>, <<quals[i]>>)]

WrapperKinds ==
    {"pointer", "const_pointer", "reference", "rvalue_reference", "array",
     "parenthesized"}

WrapperType(kind, abstract) ==
    CASE kind \in {"pointer", "const_pointer", "const_volatile_pointer"} ->
            IF abstract THEN "abstract_pointer_declarator" ELSE "pointer_declarator"
      [] kind \in {"reference", "rvalue_reference"} ->
            IF abstract THEN "abstract_reference_declarator" ELSE "reference_declarator"
      [] kind = "array" ->
            IF abstract THEN "abstract_array_declarator" ELSE "array_declarator"
      [] kind = "parenthesized" ->
            IF abstract THEN "abstract_parenthesized_declarator"
            ELSE "parenthesized_declarator"

\* The declarator chain: the wrappers (outermost first) around the innermost
\* declarator `inner`, a sequence of one node, or of none for the abstract
\* declarator of a parameter without a name.  The result is a sequence of
\* one node, or of none when there is nothing to declare.
RECURSIVE DeclaratorChain(_, _, _, _)
DeclaratorChain(wrappers, inner, field, gap) ==
    IF wrappers = <<>>
    THEN [i \in 1..Len(inner) |-> [inner[i] EXCEPT !.field = field, !.gap = gap]]
    ELSE
      LET kind == Head(wrappers)
          nodeType == WrapperType(kind, inner = <<>>)
          rest(f, g) == DeclaratorChain(Tail(wrappers), inner, f, g)
      IN  CASE kind = "pointer" ->
                 <<Inner(nodeType, field, gap,
                         <<Tok("*")>> \o rest("declarator", <<>>))>>
            [] kind = "const_pointer" ->
                 <<Inner(nodeType, field, gap,
                         <<Tok("*"), Leaf("type_qualifier", "", <<" ">>, <<"const">>)>>
                             \o rest("declarator", <<" ">>))>>
            [] kind = "const_volatile_pointer" ->
                 <<Inner(nodeType, field, gap,
                         <<Tok("*"), Leaf("type_qualifier", "", <<" ">>, <<"const">>),
                           Leaf("type_qualifier", "", <<" ">>, <<"volatile">>)>>
                             \o rest("declarator", <<" ">>))>>
            [] kind = "reference" ->
                 <<Inner(nodeType, field, gap, <<Tok("&")>> \o rest("", <<>>))>>
            [] kind = "rvalue_reference" ->
                 <<Inner(nodeType, field, gap,
                         <<Leaf("&&", "", <<>>, <<"&", "&">>)>> \o rest("", <<>>))>>
            [] kind = "array" ->
                 <<Inner(nodeType, field, gap,
                         rest("declarator", <<>>)
                             \o <<Tok("["), Leaf("number_literal", "size", <<>>, <<"3">>),
                                  Tok("]")>>)>>
            [] kind = "parenthesized" ->
                 <<Inner(nodeType, field, gap,
                         <<Tok("(")>> \o rest("", <<>>) \o <<Tok(")")>>)>>

\* A parameter: the kind of its node, its qualifiers, its type, the
\* declarators around its name and whether it has a name
Param(node, quals, base, wrappers, named) ==
    [node |-> node, quals |-> quals, base |-> base, wrappers |-> wrappers,
     named |-> named]

ParamKinds ==
    { Param("parameter_declaration", <<>>, "int", <<>>, TRUE),                 \* int x
      Param("parameter_declaration", <<>>, "int", <<>>, FALSE),                \* int
      Param("parameter_declaration", <<>>, "int", <<"pointer", "array">>, TRUE), \* int* x[3]
      Param("parameter_declaration", <<>>, "int", <<"array">>, TRUE),          \* int x[3]
      Param("parameter_declaration", <<"const">>, "map", <<"reference">>, TRUE), \* const map<..>& x
      Param("parameter_declaration", <<>>, "int", <<"const_pointer">>, TRUE),  \* int* const x
      Param("parameter_declaration", <<>>, "int", <<"pointer">>, FALSE),       \* int*
      Param("optional_parameter_declaration", <<>>, "int", <<"pointer">>, TRUE), \* int* x = 0
      Param("variadic_parameter_declaration", <<>>, "int", <<>>, TRUE) }       \* int... x

ParamNode(d, j) ==
    LET ident == Leaf("identifier", "declarator", <<>>, <<ParamNames[j]>>)
        declarator ==
            IF d.node = "variadic_parameter_declaration"
            THEN <<Inner("variadic_declarator", "declarator", <<>>,
                         <<Tok("..."), ident>>)>>
            ELSE DeclaratorChain(d.wrappers, IF d.named THEN <<ident>> ELSE <<>>,
                                 "declarator", <<" ">>)
        default ==
            IF d.node = "optional_parameter_declaration"
            THEN <<Leaf("=", "", <<" ">>, <<"=">>),
                   Leaf("number_literal", "default_value", <<" ">>, <<"0">>)>>
            ELSE <<>>
    IN  Inner(d.node, "", IF j > 1 THEN <<" ">> ELSE <<>>,
              QualifierNodes(d.quals, <<>>)
                  \o <<TypeNode(d.base, IF d.quals = <<>> THEN <<>> ELSE <<" ">>)>>
                  \o declarator \o default)

RECURSIVE ParameterNodes(_, _)
ParameterNodes(params, j) ==
    IF j > Len(params) THEN <<>>
    ELSE (IF j > 1 THEN <<Tok(",")>> ELSE <<>>)
             \o <<ParamNode(params[j], j)>> \o ParameterNodes(params, j + 1)

ParameterList(params) ==
    Inner("parameter_list", "parameters", <<>>,
          <<Tok("(")>> \o ParameterNodes(params, 1) \o <<Tok(")")>>)

NameKinds ==
    {"identifier", "field_identifier", "qualified_identifier", "template_scope",
     "operator_name", "type_identifier"}

\* The declarator field of the function declarator:
\* f, N::f, Foo< T >::f, operator &, or a name that is not an identifier
NameNode(kind, k) ==
    CASE kind \in {"identifier", "field_identifier", "type_identifier"} ->
            Leaf(kind, "declarator", <<>>, <<FnNames[k]>>)
      [] kind = "qualified_identifier" ->
            Inner("qualified_identifier", "declarator", <<>>,
                  <<Leaf("namespace_identifier", "scope", <<>>, <<"N">>), Tok("::"),
                    Leaf("identifier", "name", <<>>, <<FnNames[k]>>)>>)
      [] kind = "template_scope" ->
            Inner("qualified_identifier", "declarator", <<>>,
                  <<Leaf("template_type", "scope", <<>>,
                         <<"Foo", "<", " ", "T", " ", ">">>),
                    Tok("::"),
                    Leaf("identifier", "name", <<>>, <<FnNames[k]>>)>>)
      [] kind = "operator_name" ->
            Leaf("operator_name", "declarator", <<>>, <<"operator", " ", "&">>)

TrailingKinds ==
    {<<>>, <<"const">>, <<"throw">>, <<"const", "throw">>, <<"const", "noexcept">>}

TrailingNode(kind) ==
    CASE kind = "const" -> Leaf("type_qualifier", "", <<" ">>, <<"const">>)
      [] kind = "throw" -> Leaf("throw_specifier", "", <<" ">>, <<"throw", "(", ")">>)
      [] kind = "noexcept" -> Leaf("noexcept", "", <<" ">>, <<"noexcept">>)

BodyKinds == {"empty", "ERROR", "MISSING", "undecodable"}

BodyNode(kind) ==
    CASE kind = "empty" -> Leaf("compound_statement", "body", <<>>, <<"{", "}">>)
      [] kind = "undecodable" ->
            Leaf("compound_statement", "body", <<>>, <<"{", BadByte, "}">>)
      [] kind = "ERROR" ->
            Inner("compound_statement", "body", <<>>,
                  <<Tok("{"), Leaf("ERROR", "", <<>>, <<"@">>), Tok("}")>>)
      [] kind = "MISSING" ->
            Inner("compound_statement", "body", <<>>,
                  <<Tok("{"),
                    Inner("return_statement", "", <<>>,
                          <<Tok("return"),
                            [Leaf(";", "", <<>>, <<>>) EXCEPT !.missing = TRUE]>>),
                    Tok("}")>>)

\* The k-th function definition of a source.  name = "none": the declarator
\* is a plain identifier, there is no function declarator; base = "none":
\* no type field (a constructor).
FunctionDefinition(d, k) ==
    LET fnDeclarator ==
            IF d.name = "none"
            THEN Leaf("identifier", "declarator", <<>>, <<FnNames[k]>>)
            ELSE Inner("function_declarator", "declarator", <<>>,
                       <<NameNode(d.name, k), ParameterList(d.params)>>
                           \o [i \in 1..Len(d.trailing) |-> TrailingNode(d.trailing[i])])
        type == IF d.base = "none" THEN <<>>
                ELSE <<TypeNode(d.base, IF d.quals = <<>> THEN <<>> ELSE <<" ">>)>>
    IN  Inner("function_definition", "", <<>>,
              QualifierNodes(d.quals, <<>>) \o type
                  \o DeclaratorChain(d.wrappers, <<fnDeclarator>>, "declarator",
                                     IF d.quals = <<>> /\ type = <<>> THEN <<>> ELSE <<" ">>)
                  \o <<BodyNode(d.body)>>)

\* The tree of a source: the translation unit of its function definitions,
\* each inside its scopes, one per line
TranslationUnit(src) ==
    Inner("translation_unit", "", <<>>,
          [k \in 1..Len(src) |->
              [InScopes(src[k].scopes, 1, FunctionDefinition(src[k], k))
                  EXCEPT !.gap = IF k > 1 THEN <<"\n">> ELSE <<>>]])

(***************************************************************************)
(* Results and exceptions.  An operation that can raise returns a record:  *)
(* exc is "" and val the value returned, or exc names the exception raised *)
(* (val is then the text attribute of a ParseError).                       *)
(***************************************************************************)
Ok(v) == [exc |-> "", val |-> v]

Raise(e) == [exc |-> e, val |-> <<>>]

\* bytes.decode(): fails on a byte sequence that is not valid UTF-8
Decodable(b) == BadByte \notin Range(b)

\* sep.join(list)
RECURSIVE Join(_, _)
Join(list, sep) ==
    IF list = <<>> THEN <<>>
    ELSE IF Len(list) = 1 THEN list[1]
    ELSE list[1] \o sep \o Join(Tail(list), sep)

\* itertools.takewhile(lambda x: x != node, seq)
RECURSIVE TakeWhileNot(_, _)
TakeWhileNot(seq, node) ==
    IF seq = <<>> \/ Head(seq) = node THEN <<>>
    ELSE <<Head(seq)>> \o TakeWhileNot(Tail(seq), node)

(***************************************************************************)
(* FunctionSymbol                                                          *)
(***************************************************************************)
FunctionSymbol(return_type, symbol_name, qualified_symbol_name, param_list, modifiers, source_text) ==
    [return_type |-> return_type, symbol_name |-> symbol_name,
     qualified_symbol_name |-> qualified_symbol_name, param_list |-> param_list,
     modifiers |-> modifiers, source_text |-> source_text]

\* FunctionSymbol.params
params(self) == Join(self.param_list, <<",", " ">>)

\* The signature with the modifier segment appended unconditionally
full_signature_always_modifiers(self) ==
    self.return_type \o <<" ">> \o self.qualified_symbol_name \o <<"(">>
        \o params(self) \o <<")">> \o <<" ">> \o Join(self.modifiers, <<" ">>)

\* FunctionSymbol.full_signature
full_signature(self) ==
    IF self.modifiers # <<>>
    THEN self.return_type \o <<" ">> \o self.qualified_symbol_name \o <<"(">>
             \o params(self) \o <<")">> \o <<" ">> \o Join(self.modifiers, <<" ">>)
    ELSE self.return_type \o <<" ">> \o self.qualified_symbol_name \o <<"(">>
             \o params(self) \o <<")">>

\* source_text: Optional[str] = field(default=None, ...): the default
NoSourceText == <<"None">>

\* The runtime type of the value of each field: parse_function and the
\* default factory give param_list and modifiers a list
FieldType ==
    [return_type |-> "str", symbol_name |-> "str", qualified_symbol_name |-> "str",
     param_list |-> "list", modifiers |-> "list", source_text |-> "str"]

\* Python's hash(): a list is unhashable
Hashable(type) == type # "list"

\* The fields with source_text compared as well
CompareFieldsWithSourceText ==
    <<"return_type", "symbol_name", "qualified_symbol_name", "param_list",
      "modifiers", "source_text">>

\* The fields of the dataclass that take part in == (compare is True)
CompareFields ==
    <<"return_type", "symbol_name", "qualified_symbol_name", "param_list",
      "modifiers">>

\* The fields that take part in hash(): compared, and not hash=False
HashFields ==
    <<"return_type", "qualified_symbol_name", "param_list", "modifiers">>

\* FunctionSymbol.__eq__ as @dataclass generates it: the tuples of the
\* compared fields are equal
FunctionSymbol_eq(self, other) ==
    [i \in 1..Len(CompareFields) |-> self[CompareFields[i]]]
        = [i \in 1..Len(CompareFields) |-> other[CompareFields[i]]]

\* FunctionSymbol.__hash__ as @dataclass(frozen=True) generates it: the
\* hash of the tuple of the hashed fields, which raises TypeError when a
\* member of the tuple is unhashable.  The hash value is modelled by the
\* tuple it is computed from.
FunctionSymbol_hash(self) ==
    IF \E i \in 1..Len(HashFields) : ~Hashable(FieldType[HashFields[i]])
    THEN Raise("TypeError")
    ELSE Ok([i \in 1..Len(HashFields) |-> self[HashFields[i]]])

(***************************************************************************)
(* CPPFunctionParser                                                       *)
(***************************************************************************)
\* _parse_type, lines 280-290 without the decay of arrays
WrapperModifiersNoDecay(t, modifier) ==
    LET cs == NodeChildren(t, modifier)
        literals == SelectSeq(cs, LAMBDA x : NodeType(t, x) \in {"*", "&", "&&"})
        quals == SelectSeq(cs, LAMBDA x : NodeType(t, x) = "type_qualifier")
    IN  [i \in 1..Len(literals) |-> NodeText(t, literals[i])]
            \o (IF quals = <<>> THEN <<>> ELSE <<NodeText(t, quals[1])>>)

\* _parse_type, lines 280-290: what one wrapper of the declarator chain
\* appends to `modifiers` (as bytes, before decoding): its *, & and &&
\* tokens, one * if it is an array declarator, its first type qualifier
WrapperModifiers(t, modifier) ==
    LET cs == NodeChildren(t, modifier)
        literals == SelectSeq(cs, LAMBDA x : NodeType(t, x) \in {"*", "&", "&&"})
        decay == IF NodeType(t, modifier) = "array_declarator" THEN << <<"*">> >> ELSE <<>>
        quals == SelectSeq(cs, LAMBDA x : NodeType(t, x) = "type_qualifier")
    IN  [i \in 1..Len(literals) |-> NodeText(t, literals[i])]
            \o decay
            \o (IF quals = <<>> THEN <<>> ELSE <<NodeText(t, quals[1])>>)

\* The chain in the order the ancestor walk visits it
modifier_chain_unreversed(node, decl_node) ==
    TakeWhileNot(ancestors(decl_node), node)

\* _parse_type, lines 276-278: the wrappers strictly between decl_node and
\* node, outermost first
modifier_chain(node, decl_node) ==
    Reverse(TakeWhileNot(ancestors(decl_node), node))

RECURSIVE ChainModifiers(_, _)
ChainModifiers(t, chain) ==
    IF chain = <<>> THEN <<>>
    ELSE WrapperModifiers(t, Head(chain)) \o ChainModifiers(t, Tail(chain))

\* CPPFunctionParser._parse_type
_parse_type(t, node) ==
    LET isFunction == NodeType(t, node) = "function_definition"
        isParameter == NodeType(t, node) \in
                         {"parameter_declaration", "optional_parameter_declaration"}
        qualifierNodes == SelectSeq(NodeChildren(t, node),
                                    LAMBDA x : NodeType(t, x) = "type_qualifier")
        qualifiers == [i \in 1..Len(qualifierNodes) |->
                          strip(NodeText(t, qualifierNodes[i]))]
        typeNode == child_by_field_name(t, node, "type")
        base_type == strip(NodeText(t, typeNode))
        found == IF isFunction THEN Matches(t, node, "_FUNCTION_DECLARATOR_QUERY")
                 ELSE Matches(t, node, "identifier_query")
        \* with suppress(IndexError): no match leaves modifiers empty
        modifiers == IF found = <<>> THEN <<>>
                     ELSE ChainModifiers(t, modifier_chain(node, found[1]))
        final_type == Join(qualifiers, <<" ">>) \o <<" ">> \o base_type
                          \o Join(modifiers, <<" ">>)
    IN  IF ~isFunction /\ ~isParameter THEN Raise("TypeError")
        ELSE IF \E i \in 1..Len(qualifierNodes) :
                   ~Decodable(NodeText(t, qualifierNodes[i]))
             THEN Raise("UnicodeDecodeError")
        ELSE IF typeNode = None THEN Raise("AttributeError")
        ELSE IF ~Decodable(NodeText(t, typeNode)) THEN Raise("UnicodeDecodeError")
        ELSE IF \E i \in 1..Len(modifiers) : ~Decodable(modifiers[i])
             THEN Raise("UnicodeDecodeError")
        ELSE Ok(normalize_string(final_type))

\* The bytes of the children from index i on, the child at index skip left out
RECURSIVE BytesWithout(_, _, _)
BytesWithout(cs, i, skip) ==
    IF i > Len(cs) THEN <<>>
    ELSE (IF i > 1 THEN cs[i].gap ELSE <<>>)
             \o (IF i = skip THEN <<>> ELSE Text(cs[i]))
             \o BytesWithout(cs, i + 1, skip)

\* CPPFunctionParser._signature_text
_signature_text(t, fn_node) ==
    LET body == child_by_field_name(t, fn_node, "body")
        signature_bytes ==
            BytesWithout(NodeAt(t, fn_node).children, 1, body[Len(body)])
    IN  IF NodeType(t, fn_node) = "declaration"
        THEN IF Decodable(NodeText(t, fn_node))
             THEN Ok(strip(NodeText(t, fn_node)))
             ELSE Raise("UnicodeDecodeError")
        ELSE IF NodeType(t, fn_node) # "function_definition" THEN Raise("TypeError")
        ELSE IF body = None
             THEN IF Decodable(NodeText(t, fn_node))
                  THEN Ok(NodeText(t, fn_node))
                  ELSE Raise("UnicodeDecodeError")
        ELSE IF Decodable(signature_bytes) THEN Ok(strip(signature_bytes))
        ELSE Raise("UnicodeDecodeError")

\* An IndexError that leaves parse_function as it is
ReraiseIndexError(t, fn_node) == Raise("IndexError")

\* parse_function, lines 243-244:
\*   except IndexError as e: raise ParseError(text=self.fn_node.text.decode().strip())
OnIndexError(t, fn_node) ==
    IF Decodable(NodeText(t, fn_node))
    THEN [exc |-> "ParseError", val |-> strip(NodeText(t, fn_node))]
    ELSE Raise("UnicodeDecodeError")

\* The scopes in the order the ancestor walk visits them, innermost first
qualified_ancestors_unreversed(t, fn_declarator_node) ==
    SelectSeq(ancestors(fn_declarator_node),
              LAMBDA x : NodeType(t, x) \in {"namespace_definition", "class_specifier"})

\* parse_function, lines 194-197: the namespace and class ancestors of the
\* function declarator, outermost first
qualified_ancestors(t, fn_declarator_node) ==
    Reverse(SelectSeq(ancestors(fn_declarator_node),
              LAMBDA x : NodeType(t, x) \in {"namespace_definition", "class_specifier"}))

\* Every child that follows the parameter list taken as a modifier
modifier_nodes_all_trailing(t, fn_declarator_node) ==
    SelectSeq(NodeChildren(t, fn_declarator_node),
              LAMBDA x : NodeAt(t, x).field = "")

\* parse_function, lines 214-218: the type_qualifier children of the
\* function declarator
modifier_nodes(t, fn_declarator_node) ==
    SelectSeq(NodeChildren(t, fn_declarator_node),
              LAMBDA x : NodeType(t, x) = "type_qualifier")

\* parse_function, lines 223-226: the children of the parameter list that
\* are parameters
param_nodes(t, parameter_list) ==
    SelectSeq(NodeChildren(t, parameter_list),
              LAMBDA x : NodeType(t, x) \in
                  {"parameter_declaration", "optional_parameter_declaration"})

\* CPPFunctionParser.parse_function
parse_function(t, fn_node) ==
    LET return_type == _parse_type(t, fn_node)
        declarators == Matches(t, fn_node, "_FUNCTION_DECLARATOR_QUERY")
        fn_declarator_node == declarators[1]
        declarator == child_by_field_name(t, fn_declarator_node, "declarator")
        scopes == qualified_ancestors(t, fn_declarator_node)
        names == [i \in 1..Len(scopes) |-> child_by_field_name(t, scopes[i], "name")]
        name_nodes == SelectSeq(names, LAMBDA n : n # None)
        addon_qualifiers == [i \in 1..Len(name_nodes) |->
                                normalize_string(NodeText(t, name_nodes[i]))]
        qualified_name ==
            IF addon_qualifiers # <<>>
            THEN Join(addon_qualifiers, <<"::">>) \o <<"::">> \o NodeText(t, declarator)
            ELSE NodeText(t, declarator)
        identifiers == Matches(t, fn_declarator_node, "_FUNCTION_IDENTIFIER_QUERY")
        fn_identifier_node == identifiers[1]
        modNodes == modifier_nodes(t, fn_declarator_node)
        modifiers == [i \in 1..Len(modNodes) |->
                         normalize_string(NodeText(t, modNodes[i]))]
        parameter_lists == Matches(t, fn_node, "_FUNCTION_PARAMETER_QUERY")
        pNodes == param_nodes(t, parameter_lists[1])
        pTypes == [i \in 1..Len(pNodes) |-> _parse_type(t, pNodes[i])]
        pFailed == {i \in 1..Len(pNodes) : pTypes[i].exc # ""}
        parameters == [i \in 1..Len(pNodes) |-> normalize_string(pTypes[i].val)]
        signature == _signature_text(t, fn_node)
        source_text == strip(SubMultiSpace(strip(signature.val)))
    IN  IF return_type.exc # "" THEN return_type
        ELSE IF declarators = <<>> THEN OnIndexError(t, fn_node)
        ELSE IF declarator = None THEN Raise("AttributeError")
        ELSE IF ~Decodable(NodeText(t, declarator)) THEN Raise("UnicodeDecodeError")
        ELSE IF \E i \in 1..Len(name_nodes) : ~Decodable(NodeText(t, name_nodes[i]))
             THEN Raise("UnicodeDecodeError")
        ELSE IF identifiers = <<>> THEN OnIndexError(t, fn_node)
        ELSE IF ~Decodable(NodeText(t, fn_identifier_node))
             THEN Raise("UnicodeDecodeError")
        ELSE IF \E i \in 1..Len(modNodes) : ~Decodable(NodeText(t, modNodes[i]))
             THEN Raise("UnicodeDecodeError")
        ELSE IF parameter_lists = <<>> THEN OnIndexError(t, fn_node)
        ELSE IF pFailed # {} THEN Raise(pTypes[Min(pFailed)].exc)
        ELSE IF signature.exc # "" THEN signature
        ELSE Ok(FunctionSymbol(
                    normalize_string(return_type.val),
                    normalize_string(NodeText(t, fn_identifier_node)),
                    normalize_string(qualified_name),
                    parameters,
                    modifiers,
                    source_text))

(***************************************************************************)
(* The source files the parser is run on                                   *)
(***************************************************************************)
Plain ==
    [scopes |-> <<>>, quals |-> <<>>, base |-> "int", wrappers |-> <<>>,
     name |-> "identifier", params |-> <<>>, trailing |-> <<>>, body |-> "empty"]

\* Functions in scopes, with every kind of name
ScopedFunctions ==
    {[Plain EXCEPT !.scopes = s, !.name = n] :
        s \in SeqsUpTo(ScopeKinds, MaxScopes), n \in NameKinds}

\* Functions with every return type
TypedFunctions ==
    {[Plain EXCEPT !.quals = q, !.base = b, !.wrappers = w] :
        q \in {<<>>, <<"const">>}, b \in BaseKinds,
        w \in SeqsUpTo(WrapperKinds, MaxDepth)}

\* Functions with parameters and trailing modifiers
ParameterFunctions ==
    {[Plain EXCEPT !.params = ps, !.trailing = tr, !.base = b, !.quals = q] :
        ps \in SeqsUpTo(ParamKinds, MaxParams), tr \in TrailingKinds,
        b \in {"int", "function"}, q \in {<<>>, <<"const">>}}

\* Functions the reconstruction can fail on
MalformedFunctions ==
    {[Plain EXCEPT !.name = n, !.base = b, !.body = bd, !.params = ps] :
        n \in NameKinds \cup {"none"},
        b \in BaseKinds \cup {"undecodable", "none"},
        bd \in BodyKinds,
        ps \in {<<>>, <<Param("parameter_declaration", <<>>, "int", <<>>, TRUE)>>}}

\* Functions whose return type and parameter both have a declarator chain,
\* among them pointers with two qualifiers:
\* int *f(...)   int * const volatile *f(...)   int *&f(...)
\* (int *x[3])   (int * const volatile x)   (int * const *x)   (int *)
ChainedFunctions ==
    {[Plain EXCEPT !.wrappers = w, !.params = ps] :
        w \in {<<"pointer">>, <<"const_volatile_pointer", "pointer">>,
               <<"pointer", "reference">>},
        ps \in {<<Param("parameter_declaration", <<>>, "int", <<"pointer", "array">>, TRUE)>>,
                <<Param("parameter_declaration", <<>>, "int",
                        <<"const_volatile_pointer">>, TRUE)>>,
                <<Param("parameter_declaration", <<>>, "int",
                        <<"const_pointer", "pointer">>, TRUE)>>,
                <<Param("parameter_declaration", <<>>, "int", <<"pointer">>, FALSE)>>}}

\* The functions of the sources with several functions
SiblingFunctions ==
    { Plain,
      [Plain EXCEPT !.scopes = <<"namespace">>, !.wrappers = <<"pointer">>,
                    !.trailing = <<"const">>],
      [Plain EXCEPT !.body = "ERROR"],
      [Plain EXCEPT !.body = "MISSING"],
      [Plain EXCEPT !.body = "undecodable"],
      [Plain EXCEPT !.name = "none"],
      [Plain EXCEPT !.name = "none", !.body = "undecodable"],
      [Plain EXCEPT !.name = "type_identifier"],
      [Plain EXCEPT !.base = "undecodable"],
      [Plain EXCEPT !.base = "none"] }

SourceFiles ==
    {<<d>> : d \in ScopedFunctions \cup TypedFunctions \cup ParameterFunctions
                     \cup MalformedFunctions \cup ChainedFunctions}
        \cup UNION {[1..k -> SiblingFunctions] : k \in 2..MaxFuncs}

(***************************************************************************)
(* CPPTreeParser.parse_functions                                           *)
(***************************************************************************)
\* One match for the node and one more for each (type_qualifier) capture
RECURSIVE MatchPerCapture(_, _)
MatchPerCapture(t, matches) ==
    IF matches = <<>> THEN <<>>
    ELSE LET fn == Head(matches)
             captures == SelectSeq(NodeChildren(t, fn),
                                   LAMBDA x : NodeType(t, x) = "type_qualifier")
         IN  <<fn>> \o [i \in 1..Len(captures) |-> fn]
                 \o MatchPerCapture(t, Tail(matches))

function_matches_per_capture(t) ==
    MatchPerCapture(t, Matches(t, <<>>, "_FUNCTION_QUERY"))

\* cursor.matches(self.tree.root_node) for _FUNCTION_QUERY
function_matches(t) == Matches(t, <<>>, "_FUNCTION_QUERY")

\* An error check that looks for (ERROR) nodes only
has_error_node_only(t, fn_definition_node) ==
    SelectSeq(Preorder(t, fn_definition_node),
              LAMBDA q : NodeAt(t, q).type = "ERROR") # <<>>

\* lines 82-83: error_cursor.matches(fn_definition_node) is not empty
has_errors(t, fn_definition_node) ==
    Matches(t, fn_definition_node, "_ERROR_QUERY") # <<>>

\* line 88: with suppress(ParseError, UnicodeDecodeError)
Suppressed == {"ParseError", "UnicodeDecodeError"}

\* No comparison or hashing of records is under way
SymbolsIdle ==
    /\ lhs = <<>>
    /\ rhs = <<>>
    /\ returned = [op |-> "none", exc |-> "", val |-> <<>>]

\* bounded_run is not running
PoolIdle ==
    /\ b_callables = <<>>
    /\ b_bound = 0
    /\ b_it = 0
    /\ b_futures = {}
    /\ b_done = {}
    /\ b_state = <<>>
    /\ b_submitted = <<>>
    /\ b_yielded = <<>>
    /\ b_pc = "idle"

\* chunked_iter is not running
ChunkIdle ==
    /\ c_input = <<>>
    /\ c_size = 0
    /\ c_pos = 0
    /\ c_cache = <<>>
    /\ c_left = 0
    /\ c_chunks = <<>>
    /\ c_full = TRUE
    /\ c_pc = "idle"

\* get_with_retry is not running
RetryIdle ==
    /\ r_retries = 0
    /\ r_attempt = 0
    /\ r_outcomes = <<>>
    /\ r_slept = <<>>
    /\ r_result = [exc |-> "", val |-> <<>>]
    /\ r_pc = "idle"

UtilsIdle == PoolIdle /\ ChunkIdle /\ RetryIdle

\* No ancestor walk is under way
WalkIdle ==
    /\ w_node = None
    /\ w_current = None
    /\ w_yielded = <<>>
    /\ w_pc = "idle"

Init ==
    /\ tree \in {TranslationUnit(src) : src \in SourceFiles}
    /\ idx = 1
    /\ out = <<>>
    /\ raised = ""
    /\ pc = "iterating"
    /\ arg = <<>>
    /\ string = <<>>
    /\ npc = "idle"
    /\ SymbolsIdle
    /\ WalkIdle
    /\ UtilsIdle

\* One iteration of the loop of parse_functions (lines 78-91)
parse_functions_next ==
    /\ pc = "iterating"
    /\ idx <= Len(function_matches(tree))
    /\ LET fn_definition_node == function_matches(tree)[idx]
           function == parse_function(tree, fn_definition_node)
       IN  IF has_errors(tree, fn_definition_node)
           THEN /\ idx' = idx + 1
                /\ UNCHANGED <<out, raised, pc>>
           ELSE IF function.exc = ""
           THEN /\ out' = Append(out, [node |-> fn_definition_node,
                                       symbol |-> function.val])
                /\ idx' = idx + 1
                /\ UNCHANGED <<raised, pc>>
           ELSE IF function.exc \in Suppressed
           THEN /\ idx' = idx + 1
                /\ UNCHANGED <<out, raised, pc>>
           ELSE /\ raised' = function.exc
                /\ pc' = "raised"
                /\ UNCHANGED <<idx, out>>
    /\ UNCHANGED <<tree, arg, string, npc, symbolVars, walkVars, utilVars>>

\* The matches are exhausted: the generator returns
parse_functions_return ==
    /\ pc = "iterating"
    /\ idx > Len(function_matches(tree))
    /\ pc' = "done"
    /\ UNCHANGED <<tree, idx, out, raised, arg, string, npc, symbolVars, walkVars, utilVars>>

Next == parse_functions_next \/ parse_functions_return

Spec == Init /\ [][Next]_vars

(***************************************************************************)
(* Specification SpecNorm: normalize_string applied to an arbitrary        *)
(* string, then applied again to its own result.                           *)
(***************************************************************************)
InitNorm ==
    /\ arg \in Strings(MaxLen)
    /\ string = arg
    /\ npc = "call"
    /\ tree = TranslationUnit(<<>>)
    /\ idx = 1
    /\ out = <<>>
    /\ raised = ""
    /\ pc = "idle"
    /\ SymbolsIdle
    /\ WalkIdle
    /\ UtilsIdle

NormalizeOnce ==
    /\ npc = "call"
    /\ string' = normalize_string(string)
    /\ npc' = "pass1"
    /\ UNCHANGED <<arg, tree, idx, out, raised, pc, symbolVars, walkVars, utilVars>>

NormalizeAgain ==
    /\ npc = "pass1"
    /\ string' = normalize_string(string)
    /\ npc' = "pass2"
    /\ UNCHANGED <<arg, tree, idx, out, raised, pc, symbolVars, walkVars, utilVars>>

NextNorm == NormalizeOnce \/ NormalizeAgain

SpecNorm == InitNorm /\ [][NextNorm]_vars

(***************************************************************************)
(* Specification SpecLiterals: parse_string_literals iterated over sources *)
(* made of statements that hold string literals.  A statement is described *)
(* by a record                                                             *)
(*   enclosing  the constructs around it, outermost first                  *)
(*   item       the kind of statement                                      *)
(***************************************************************************)
MaxNesting == 2   \* most constructs around a statement
MaxItems == 2     \* most top-level statements or directives of a source

StringLiteralNode(field, gap, text) == Leaf("string_literal", field, gap, text)

\* f(...) with the given argument nodes
CallExpression(field, gap, f, arguments) ==
    Inner("call_expression", field, gap,
          <<Leaf("identifier", "function", <<>>, <<f>>),
            Inner("argument_list", "arguments", <<>>,
                  <<Tok("(")>> \o arguments \o <<Tok(")")>>)>>)

\* char *s = <literal>;
LiteralDeclaration(gap, text) ==
    Inner("declaration", "", gap,
          <<Leaf("primitive_type", "type", <<>>, <<"char">>),
            Inner("init_declarator", "declarator", <<" ">>,
                  <<Inner("pointer_declarator", "declarator", <<>>,
                          <<Tok("*"), Leaf("identifier", "declarator", <<>>, <<"s">>)>>),
                    Leaf("=", "", <<" ">>, <<"=">>),
                    StringLiteralNode("value", <<" ">>, text)>>),
            Tok(";")>>)

ItemKinds ==
    {"include", "include_call", "declaration", "expression", "return", "undecodable",
     "unterminated"}

\* #include "a.h"     #include M("a.h")     char *s = "x";
\* p("x", "y");       return "x";           char *s = "<invalid UTF-8>";
\* "x"  (an expression statement whose ";" is missing)
ItemNode(kind, gap) ==
    CASE kind = "include" ->
            Inner("preproc_include", "", gap,
                  <<Tok("#include"), StringLiteralNode("path", <<" ">>, <<"\"a.h\"">>)>>)
      [] kind = "include_call" ->
            Inner("preproc_include", "", gap,
                  <<Tok("#include"),
                    CallExpression("path", <<" ">>, "M",
                        <<StringLiteralNode("", <<>>, <<"\"a.h\"">>)>>)>>)
      [] kind = "declaration" -> LiteralDeclaration(gap, <<"\"x\"">>)
      [] kind = "undecodable" -> LiteralDeclaration(gap, <<"\"", BadByte, "\"">>)
      [] kind = "expression" ->
            Inner("expression_statement", "", gap,
                  <<CallExpression("", <<>>, "p",
                        <<StringLiteralNode("", <<>>, <<"\"x\"">>), Tok(","),
                          StringLiteralNode("", <<" ">>, <<"\"y\"">>)>>),
                    Tok(";")>>)
      [] kind = "unterminated" ->
            Inner("expression_statement", "", gap,
                  <<StringLiteralNode("", <<>>, <<"\"x\"">>),
                    [Leaf(";", "", <<>>, <<>>) EXCEPT !.missing = TRUE]>>)
      [] kind = "return" ->
            Inner("return_statement", "", gap,
                  <<Tok("return"), StringLiteralNode("", <<" ">>, <<"\"x\"">>), Tok(";")>>)

\* [] { inner }
LambdaExpression(field, gap, inner) ==
    Inner("lambda_expression", field, gap,
          <<Leaf("lambda_capture_specifier", "captures", <<>>, <<"[", "]">>),
            Inner("compound_statement", "body", <<" ">>,
                  <<Tok("{"), inner, Leaf("}", "", <<"\n">>, <<"}">>)>>)>>)

EnclosingKinds == {"declaration", "expression_statement", "function"}

\* auto g = [] { inner };     run([] { inner });     void f() { inner }
EnclosingNode(kind, gap, inner) ==
    CASE kind = "declaration" ->
            Inner("declaration", "", gap,
                  <<Leaf("placeholder_type_specifier", "type", <<>>, <<"auto">>),
                    Inner("init_declarator", "declarator", <<" ">>,
                          <<Leaf("identifier", "declarator", <<>>, <<"g">>),
                            Leaf("=", "", <<" ">>, <<"=">>),
                            LambdaExpression("value", <<" ">>, inner)>>),
                    Tok(";")>>)
      [] kind = "expression_statement" ->
            Inner("expression_statement", "", gap,
                  <<CallExpression("", <<>>, "run",
                                   <<LambdaExpression("", <<>>, inner)>>),
                    Tok(";")>>)
      [] kind = "function" ->
            Inner("function_definition", "", gap,
                  <<Leaf("primitive_type", "type", <<>>, <<"void">>),
                    Inner("function_declarator", "declarator", <<" ">>,
                          <<Leaf("identifier", "declarator", <<>>, <<"f">>),
                            ParameterList(<<>>)>>),
                    Inner("compound_statement", "body", <<" ">>,
                          <<Tok("{"), inner, Leaf("}", "", <<"\n">>, <<"}">>)>>)>>)

\* The statement of kind item inside the constructs enclosing[i..]
RECURSIVE Enclosed(_, _, _, _)
Enclosed(enclosing, i, item, gap) ==
    IF i > Len(enclosing) THEN ItemNode(item, gap)
    ELSE EnclosingNode(enclosing[i], gap, Enclosed(enclosing, i + 1, item, <<"\n">>))

Statement(enclosing, item) == [enclosing |-> enclosing, item |-> item]

\* The statements of the sources with several statements
SiblingStatements ==
    { Statement(<<>>, "include"),
      Statement(<<>>, "declaration"),
      Statement(<<>>, "undecodable"),
      Statement(<<"function">>, "return"),
      Statement(<<"function">>, "expression") }

LiteralSources ==
    {<<Statement(e, i)>> : e \in SeqsUpTo(EnclosingKinds, MaxNesting), i \in ItemKinds}
        \cup UNION {[1..k -> SiblingStatements] : k \in 2..MaxItems}

\* The tree of a source of statements, one per line
StatementUnit(src) ==
    Inner("translation_unit", "", <<>>,
          [k \in 1..Len(src) |->
              Enclosed(src[k].enclosing, 1, src[k].item,
                       IF k > 1 THEN <<"\n">> ELSE <<>>)])

StringLiteral(value) == [value |-> value]

\* cursor.matches(self.tree.root_node) for _STRING_LITERAL_QUERY
string_matches(t) == Matches(t, <<>>, "_STRING_LITERAL_QUERY")

\* The test applied to the parent of the literal only
in_include_parent_only(t, string_node) ==
    NodeType(t, NodeParent(string_node)) = "preproc_include"

\* line 120: any(node.type == "preproc_include" for node in ancestors(...))
in_include(t, string_node) ==
    \E i \in 1..Len(ancestors(string_node)) :
        NodeType(t, ancestors(string_node)[i]) = "preproc_include"

\* The enclosing statements from the root down
parent_nodes_outermost_first(t, string_node) ==
    Reverse(SelectSeq(ancestors(string_node),
              LAMBDA x : NodeType(t, x) \in {"declaration", "expression_statement"}))

\* A generator that looks for declarations only
parent_nodes_declaration_only(t, string_node) ==
    SelectSeq(ancestors(string_node), LAMBDA x : NodeType(t, x) = "declaration")

\* lines 124-127: the generator over the ancestors that are a declaration
\* or an expression statement, nearest first; next() takes its first item
parent_nodes(t, string_node) ==
    SelectSeq(ancestors(string_node),
              LAMBDA x : NodeType(t, x) \in {"declaration", "expression_statement"})

InitLiterals ==
    /\ tree \in {StatementUnit(src) : src \in LiteralSources}
    /\ idx = 1
    /\ out = <<>>
    /\ raised = ""
    /\ pc = "string_literals"
    /\ arg = <<>>
    /\ string = <<>>
    /\ npc = "idle"
    /\ SymbolsIdle
    /\ WalkIdle
    /\ UtilsIdle

\* One iteration of the loop of parse_string_literals (lines 118-131)
parse_string_literals_next ==
    /\ pc = "string_literals"
    /\ idx <= Len(string_matches(tree))
    /\ LET string_node == string_matches(tree)[idx]
           found == parent_nodes(tree, string_node)
       IN  IF in_include(tree, string_node)
           THEN UNCHANGED out
           \* with suppress(StopIteration, UnicodeDecodeError)
           ELSE IF found = <<>>
           THEN UNCHANGED out
           ELSE IF ~Decodable(NodeText(tree, found[1]))
           THEN UNCHANGED out
           ELSE out' = Append(out, [node |-> string_node,
                                    literal |-> StringLiteral(
                                        strip(NodeText(tree, found[1])))])
    /\ idx' = idx + 1
    /\ UNCHANGED <<tree, raised, pc, arg, string, npc, symbolVars, walkVars, utilVars>>

\* The matches are exhausted: the generator returns
parse_string_literals_return ==
    /\ pc = "string_literals"
    /\ idx > Len(string_matches(tree))
    /\ pc' = "done"
    /\ UNCHANGED <<tree, idx, out, raised, arg, string, npc, symbolVars, walkVars, utilVars>>

NextLiterals == parse_string_literals_next \/ parse_string_literals_return

SpecLiterals == InitLiterals /\ [][NextLiterals]_vars

(***************************************************************************)
(* Specification SpecDefines: parse_preproc_defs iterated over sources     *)
(* made of macro definitions, inside an include guard or not.              *)
(***************************************************************************)
MacroNames == <<"A", "B", "C", "D">>

DefineKinds ==
    {"valued", "guard", "function_like", "undecodable_value", "undecodable_name"}

\* #define A 3.14<tab>     #define A     #define A(x) x
\* #define A <invalid UTF-8>     #define <invalid UTF-8> 3.14
DefineNode(kind, k, gap) ==
    LET name == Leaf("identifier", "name", <<" ">>,
                     IF kind = "undecodable_name" THEN <<BadByte>> ELSE <<MacroNames[k]>>)
        value == Leaf("preproc_arg", "value", <<" ">>,
                      IF kind = "undecodable_value" THEN <<BadByte>>
                      ELSE IF kind = "function_like" THEN <<"x">>
                      ELSE <<"3.14", "\t">>)
        eol == Leaf("\n", "", <<>>, <<"\n">>)
    IN  CASE kind = "guard" ->
                Inner("preproc_def", "", gap, <<Tok("#define"), name, eol>>)
          [] kind = "function_like" ->
                Inner("preproc_function_def", "", gap,
                      <<Tok("#define"), name,
                        Leaf("preproc_params", "parameters", <<>>, <<"(", "x", ")">>),
                        value, eol>>)
          [] OTHER ->
                Inner("preproc_def", "", gap, <<Tok("#define"), name, value, eol>>)

DefineNodes(defines) == [k \in 1..Len(defines) |-> DefineNode(defines[k], k, <<>>)]

\* The tree of a source of macro definitions; guarded: they stand between
\* "#ifndef H" and "#endif"
DefineUnit(guarded, defines) ==
    Inner("translation_unit", "", <<>>,
          IF guarded
          THEN <<Inner("preproc_ifdef", "", <<>>,
                       <<Tok("#ifndef"), Leaf("identifier", "name", <<" ">>, <<"H">>)>>
                           \o [k \in 1..Len(defines) |->
                                  DefineNode(defines[k], k, IF k = 1 THEN <<"\n">> ELSE <<>>)]
                           \o <<Tok("#endif")>>)>>
          ELSE DefineNodes(defines))

DefineSources == UNION {[1..k -> DefineKinds] : k \in 1..MaxItems}

PreprocessDefine(name, value) == [name |-> name, value |-> value]

\* cursor.matches(self.tree.root_node) for _PREPROC_QUERY
preproc_matches(t) == Matches(t, <<>>, "_PREPROC_QUERY")

\* The record built from the texts as they are
preproc_define_untrimmed(t, name, value) ==
    PreprocessDefine(NodeText(t, name), NodeText(t, value))

\* lines 104-107: the record built from the captured name and value nodes
preproc_define(t, name, value) ==
    PreprocessDefine(strip(NodeText(t, name)), strip(NodeText(t, value)))

InitDefines ==
    /\ tree \in {DefineUnit(g, src) : g \in BOOLEAN, src \in DefineSources}
    /\ idx = 1
    /\ out = <<>>
    /\ raised = ""
    /\ pc = "preproc_defs"
    /\ arg = <<>>
    /\ string = <<>>
    /\ npc = "idle"
    /\ SymbolsIdle
    /\ WalkIdle
    /\ UtilsIdle

\* One iteration of the loop of parse_preproc_defs (lines 102-107)
parse_preproc_defs_next ==
    /\ pc = "preproc_defs"
    /\ idx <= Len(preproc_matches(tree))
    /\ LET def == preproc_matches(tree)[idx]
           name == child_by_field_name(tree, def, "name")
           value == child_by_field_name(tree, def, "value")
       IN  \* with suppress(UnicodeDecodeError)
           IF ~Decodable(NodeText(tree, name)) \/ ~Decodable(NodeText(tree, value))
           THEN UNCHANGED out
           ELSE out' = Append(out, [node |-> def,
                                    define |-> preproc_define(tree, name, value)])
    /\ idx' = idx + 1
    /\ UNCHANGED <<tree, raised, pc, arg, string, npc, symbolVars, walkVars, utilVars>>

\* The matches are exhausted: the generator returns
parse_preproc_defs_return ==
    /\ pc = "preproc_defs"
    /\ idx > Len(preproc_matches(tree))
    /\ pc' = "done"
    /\ UNCHANGED <<tree, idx, out, raised, arg, string, npc, symbolVars, walkVars, utilVars>>

NextDefines == parse_preproc_defs_next \/ parse_preproc_defs_return

SpecDefines == InitDefines /\ [][NextDefines]_vars

(***************************************************************************)
(* Specification SpecAncestors: the generator utils.ast.ancestors, started *)
(* on a node of a tree and iterated to exhaustion by its consumer.         *)
(***************************************************************************)
WalkTrees ==
    { TranslationUnit(<<[Plain EXCEPT
          !.scopes = <<"namespace", "class">>,
          !.params = <<Param("parameter_declaration", <<>>, "int",
                             <<"pointer", "array">>, TRUE)>>]>>),
      StatementUnit(<<Statement(<<"declaration", "function">>, "expression"),
                      Statement(<<>>, "include_call")>>) }

\* The walk entered at the node itself
ancestors_enter_at_node(n) == n

\* line 14: current = node.parent
ancestors_enter(n) == NodeParent(n)

InitAncestors ==
    /\ tree \in WalkTrees
    /\ w_node \in Range(Preorder(tree, <<>>))
    /\ w_current = None
    /\ w_yielded = <<>>
    /\ w_pc = "start"
    /\ idx = 1
    /\ out = <<>>
    /\ raised = ""
    /\ pc = "idle"
    /\ arg = <<>>
    /\ string = <<>>
    /\ npc = "idle"
    /\ SymbolsIdle
    /\ UtilsIdle

\* The first next(): the generator body starts
ancestors_start ==
    /\ w_pc = "start"
    /\ w_current' = ancestors_enter(w_node)
    /\ w_pc' = "loop"
    /\ UNCHANGED <<tree, idx, out, raised, pc, arg, string, npc, symbolVars, utilVars,
                   w_node, w_yielded>>

\* lines 15-17: while current: yield current; current = current.parent
ancestors_yield ==
    /\ w_pc = "loop"
    /\ w_current # None
    /\ w_yielded' = Append(w_yielded, w_current)
    /\ w_current' = NodeParent(w_current)
    /\ UNCHANGED <<tree, idx, out, raised, pc, arg, string, npc, symbolVars, utilVars,
                   w_node, w_pc>>

\* line 15: current is None, the loop and the generator end
ancestors_return ==
    /\ w_pc = "loop"
    /\ w_current = None
    /\ w_pc' = "done"
    /\ UNCHANGED <<tree, idx, out, raised, pc, arg, string, npc, symbolVars, utilVars,
                   w_node, w_current, w_yielded>>

NextAncestors == ancestors_start \/ ancestors_yield \/ ancestors_return

\* The consumer keeps asking for the next item until the generator ends
SpecAncestors ==
    InitAncestors /\ [][NextAncestors]_vars /\ WF_vars(NextAncestors)

(***************************************************************************)
(* Specification SpecSymbol: parse_functions is iterated to exhaustion     *)
(* over a source that defines functions of the same name, then one of the  *)
(* records it yielded is compared with another record or hashed.           *)
(***************************************************************************)
\* The tree of a source whose function definitions all have the same name
Overloads(src) ==
    Inner("translation_unit", "", <<>>,
          [k \in 1..Len(src) |->
              [InScopes(src[k].scopes, 1, FunctionDefinition(src[k], 1))
                  EXCEPT !.gap = IF k > 1 THEN <<"\n">> ELSE <<>>]])

\* int f(){}  int f(int x){}  int f(int){}  int f() const{}
\* int f() const throw(){}  map<k,\nv > f(){}  int N::f(){}
OverloadedFunctions ==
    { Plain,
      [Plain EXCEPT !.params = <<Param("parameter_declaration", <<>>, "int", <<>>, TRUE)>>],
      [Plain EXCEPT !.params = <<Param("parameter_declaration", <<>>, "int", <<>>, FALSE)>>],
      [Plain EXCEPT !.trailing = <<"const">>],
      [Plain EXCEPT !.trailing = <<"const", "throw">>],
      [Plain EXCEPT !.base = "map"],
      [Plain EXCEPT !.name = "qualified_identifier"] }

\* The records a caller builds by hand to compare an extracted record with
\* (tests/test_cpp_parsing.py): each field is that of the extracted record
\* or another value, and source_text is left out or given
ExpectedRecords(symbol) ==
    { FunctionSymbol(rt, sn, qn, pl, md, st) :
        rt \in {symbol.return_type, <<"void">>},
        sn \in {symbol.symbol_name, <<"g">>},
        qn \in {symbol.qualified_symbol_name, <<"M", "::", "f">>},
        pl \in {symbol.param_list, Append(symbol.param_list, <<"char">>)},
        md \in {symbol.modifiers, Append(symbol.modifiers, <<"volatile">>)},
        st \in {symbol.source_text, NoSourceText} }

InitSymbol ==
    /\ tree \in {Overloads(src) : src \in UNION {[1..k -> OverloadedFunctions] :
                                                  k \in 1..MaxFuncs}}
    /\ idx = 1
    /\ out = <<>>
    /\ raised = ""
    /\ pc = "iterating"
    /\ arg = <<>>
    /\ string = <<>>
    /\ npc = "idle"
    /\ SymbolsIdle
    /\ WalkIdle
    /\ UtilsIdle

\* actual[i] == expected
compare_records ==
    /\ pc = "done"
    /\ returned.op = "none"
    /\ \E i \in 1..Len(out) :
          \E other \in {out[j].symbol : j \in 1..Len(out)}
                          \cup ExpectedRecords(out[i].symbol) :
              /\ lhs' = out[i].symbol
              /\ rhs' = other
              /\ returned' = [op |-> "__eq__", exc |-> "",
                              val |-> FunctionSymbol_eq(out[i].symbol, other)]
    /\ UNCHANGED <<tree, idx, out, raised, pc, arg, string, npc, walkVars, utilVars>>

\* hash(actual[i])
hash_record ==
    /\ pc = "done"
    /\ returned.op = "none"
    /\ \E i \in 1..Len(out) :
          /\ lhs' = out[i].symbol
          /\ returned' = [op |-> "__hash__",
                          exc |-> FunctionSymbol_hash(out[i].symbol).exc,
                          val |-> FunctionSymbol_hash(out[i].symbol).val]
    /\ UNCHANGED <<tree, idx, out, raised, pc, arg, string, npc, rhs, walkVars, utilVars>>

NextSymbol ==
    \/ parse_functions_next
    \/ parse_functions_return
    \/ compare_records
    \/ hash_record

SpecSymbol == InitSymbol /\ [][NextSymbol]_vars

(***************************************************************************)
(* Specification SpecBounded: BoundedSubmissionMixin.bounded_run iterated  *)
(* by its consumer while the workers of the pool complete the submitted    *)
(* callables in any order.  A callable is "returns" or "raises"; a future  *)
(* is named by the position of its callable in _iter.                      *)
(***************************************************************************)
MaxTasks == 3   \* most callables in _iter
MaxBound == 2   \* largest bound given by the caller

SUBMISSION_BOUND_RATIO == 2
_FALLBACK_SUBMISSION_WORKERS == 4

\* lines 41-43: the bound when the caller gives none and the executor has no
\* _pool_size attribute
default_bound == _FALLBACK_SUBMISSION_WORKERS * SUBMISSION_BOUND_RATIO

\* itertools.islice(it, count) on an iterator with `rest` items left:
\* how many items it takes
islice_taken(count, rest) == IF count <= rest THEN count ELSE rest

\* One replacement more than the futures observed as done
refill_count_one_more(done) == Cardinality(done) + 1

\* line 48: len(done)
refill_count(done) == Cardinality(done)

\* The futures waited for are all kept
wait_all_kept(futures, done) == futures

\* line 47: the second set returned by wait(), the futures not in done
wait_not_done(futures, done) == futures \ done

InitBounded ==
    /\ b_callables \in SeqsUpTo({"returns", "raises"}, MaxTasks)
    \* the caller gives a bound, or none (lines 41-43)
    /\ \/ b_bound \in 1..MaxBound
       \/ b_bound = default_bound
    /\ b_it = 0
    /\ b_futures = {}
    /\ b_done = {}
    /\ b_state = [i \in 1..Len(b_callables) |-> "pending"]
    /\ b_submitted = <<>>
    /\ b_yielded = <<>>
    /\ b_pc = "start"
    /\ tree = TranslationUnit(<<>>)
    /\ idx = 1
    /\ out = <<>>
    /\ raised = ""
    /\ pc = "idle"
    /\ arg = <<>>
    /\ string = <<>>
    /\ npc = "idle"
    /\ SymbolsIdle
    /\ WalkIdle
    /\ ChunkIdle
    /\ RetryIdle

\* The first next(), lines 45-49: the first `bound` callables are submitted;
\* with no future the loop and the generator end, otherwise wait() is called
bounded_run_start ==
    /\ b_pc = "start"
    /\ LET k == islice_taken(b_bound, Len(b_callables))
       IN  /\ b_it' = k
           /\ b_submitted' = [i \in 1..k |-> i]
           /\ b_futures' = 1..k
           /\ b_state' = [i \in 1..Len(b_callables) |->
                             IF i <= k THEN "running" ELSE "pending"]
           /\ b_pc' = IF k = 0 THEN "done" ELSE "waiting"
    /\ UNCHANGED <<b_callables, b_bound, b_done, b_yielded, parserVars, symbolVars,
                   walkVars, chunkVars, retryVars>>

\* A worker of the pool has run a submitted callable: its future holds a
\* result or an exception
worker_run ==
    /\ b_pc \in {"waiting", "suspended"}
    /\ \E i \in 1..Len(b_callables) :
          /\ b_state[i] = "running"
          /\ b_state' = [b_state EXCEPT ![i] = "finished"]
    /\ UNCHANGED <<b_callables, b_bound, b_it, b_futures, b_done, b_submitted,
                   b_yielded, b_pc, parserVars, symbolVars, walkVars, chunkVars,
                   retryVars>>

\* lines 47-50: wait() returns with futures it saw completed, as many new
\* callables are submitted, and the first future of done is yielded
bounded_run_wait ==
    /\ b_pc = "waiting"
    /\ \E done \in SUBSET {i \in b_futures : b_state[i] = "finished"} :
          /\ done # {}
          /\ LET k == islice_taken(refill_count(done), Len(b_callables) - b_it)
                 new == (b_it + 1)..(b_it + k)
             IN  /\ b_it' = b_it + k
                 /\ b_submitted' = b_submitted \o [i \in 1..k |-> b_it + i]
                 /\ b_futures' = wait_not_done(b_futures, done) \cup new
                 /\ b_state' = [i \in 1..Len(b_callables) |->
                                   IF i \in new THEN "running" ELSE b_state[i]]
          /\ \E x \in done :
                /\ b_yielded' = Append(b_yielded, x)
                /\ b_done' = done \ {x}
    /\ b_pc' = "suspended"
    /\ UNCHANGED <<b_callables, b_bound, parserVars, symbolVars, walkVars, chunkVars,
                   retryVars>>

\* A later next(): the next future of done is yielded (line 50); when done
\* is used up the loop goes on to wait() or, with no future left, ends
bounded_run_resume ==
    /\ b_pc = "suspended"
    /\ IF b_done # {}
       THEN /\ \E x \in b_done :
                  /\ b_yielded' = Append(b_yielded, x)
                  /\ b_done' = b_done \ {x}
            /\ UNCHANGED b_pc
       ELSE /\ b_pc' = IF b_futures # {} THEN "waiting" ELSE "done"
            /\ UNCHANGED <<b_yielded, b_done>>
    /\ UNCHANGED <<b_callables, b_bound, b_it, b_futures, b_state, b_submitted,
                   parserVars, symbolVars, walkVars, chunkVars, retryVars>>

bounded_run_steps == bounded_run_start \/ bounded_run_wait \/ bounded_run_resume

NextBounded ==
    \/ bounded_run_start
    \/ worker_run
    \/ bounded_run_wait
    \/ bounded_run_resume

\* Every submitted callable is run to its end by the pool, and the consumer
\* keeps asking for the next future until the generator ends
SpecBounded ==
    InitBounded /\ [][NextBounded]_vars
        /\ WF_vars(worker_run) /\ WF_vars(bounded_run_steps)

(***************************************************************************)
(* Specification SpecChunked: chunked_iter(iterable, chunk_size) and its   *)
(* consumer.  The generator yields islice objects over one peekable        *)
(* iterator; the consumer takes items from the newest chunk and asks for   *)
(* the next chunk when it likes, having consumed the newest one or not.    *)
(***************************************************************************)
MaxInput == 4       \* most items of the iterable
MaxChunkSize == 3   \* largest chunk_size
MaxChunks == MaxInput + 1   \* most chunks the consumer asks for

\* What peekable(iterable) holds: the items peeked and the position in the
\* iterable
Peekable(cache, pos) == [cache |-> cache, pos |-> pos]

\* A truth test that takes the next item and drops it
peekable_bool_uncached(it, iterable) ==
    IF it.cache # <<>> THEN [truth |-> TRUE, it |-> it]
    ELSE IF it.pos < Len(iterable)
         THEN [truth |-> TRUE, it |-> Peekable(<<>>, it.pos + 1)]
         ELSE [truth |-> FALSE, it |-> it]

\* line 30, `while it`: peekable.__bool__ peeks, which caches the next item
\* of the iterable when there is one
peekable_bool(it, iterable) ==
    IF it.cache # <<>> THEN [truth |-> TRUE, it |-> it]
    ELSE IF it.pos < Len(iterable)
         THEN [truth |-> TRUE, it |-> Peekable(<<iterable[it.pos + 1]>>, it.pos + 1)]
         ELSE [truth |-> FALSE, it |-> it]

\* next(it): the cached item first, then the next item of the iterable;
\* `items` is empty when StopIteration is raised
peekable_next(it, iterable) ==
    IF it.cache # <<>>
    THEN [items |-> <<Head(it.cache)>>, it |-> Peekable(Tail(it.cache), it.pos)]
    ELSE IF it.pos < Len(iterable)
         THEN [items |-> <<iterable[it.pos + 1]>>, it |-> Peekable(<<>>, it.pos + 1)]
         ELSE [items |-> <<>>, it |-> it]

\* next() on the newest chunk raises StopIteration: the islice has handed
\* out chunk_size items or the iterator has none left
ChunkConsumed ==
    \/ c_left = 0
    \/ peekable_next(Peekable(c_cache, c_pos), c_input).items = <<>>

InitChunked ==
    /\ c_input \in {[i \in 1..k |-> i] : k \in 0..MaxInput}
    /\ c_size \in 1..MaxChunkSize
    /\ c_pos = 0
    /\ c_cache = <<>>
    /\ c_left = 0
    /\ c_chunks = <<>>
    /\ c_full = TRUE
    /\ c_pc = "start"
    /\ tree = TranslationUnit(<<>>)
    /\ idx = 1
    /\ out = <<>>
    /\ raised = ""
    /\ pc = "idle"
    /\ arg = <<>>
    /\ string = <<>>
    /\ npc = "idle"
    /\ SymbolsIdle
    /\ WalkIdle
    /\ PoolIdle
    /\ RetryIdle

\* next() on the generator, lines 29-31: `while it` peeks; with an item
\* ahead a new islice(it, chunk_size) is yielded, otherwise the generator
\* ends
chunked_iter_next ==
    /\ c_pc \in {"start", "suspended"}
    /\ LET b == peekable_bool(Peekable(c_cache, c_pos), c_input)
       IN  /\ b.truth => Len(c_chunks) < MaxChunks
           /\ c_cache' = b.it.cache
           /\ c_pos' = b.it.pos
           /\ IF b.truth
              THEN /\ c_chunks' = Append(c_chunks, <<>>)
                   /\ c_left' = c_size
                   /\ c_pc' = "suspended"
              ELSE /\ c_pc' = "done"
                   /\ UNCHANGED <<c_chunks, c_left>>
    /\ c_full' = (c_full /\ (c_pc = "start" \/ ChunkConsumed))
    /\ UNCHANGED <<c_input, c_size, parserVars, symbolVars, walkVars, poolVars,
                   retryVars>>

\* next() on the newest chunk hands out an item: the islice has not reached
\* chunk_size and the iterator has an item
islice_next ==
    /\ c_pc = "suspended"
    /\ ~ChunkConsumed
    /\ LET r == peekable_next(Peekable(c_cache, c_pos), c_input)
       IN  /\ c_chunks' = [c_chunks EXCEPT ![Len(c_chunks)] = @ \o r.items]
           /\ c_cache' = r.it.cache
           /\ c_pos' = r.it.pos
    /\ c_left' = c_left - 1
    /\ UNCHANGED <<c_input, c_size, c_full, c_pc, parserVars, symbolVars, walkVars,
                   poolVars, retryVars>>

NextChunked == chunked_iter_next \/ islice_next

SpecChunked == InitChunked /\ [][NextChunked]_vars

(***************************************************************************)
(* Specification SpecRetry: get_with_retry(url, retries=...) against a     *)
(* server and a network that answer each request in any of the ways the    *)
(* function tells apart.                                                   *)
(***************************************************************************)
MaxRetries == 2   \* largest value of `retries`

\* What one requests.get() followed by raise_for_status() comes to:
\*   exc      "" (a response with a success status), "ConnectionError",
\*            "Timeout" or "HTTPError"
\*   status   e.response.status_code, 0 when there is no response
\*   headers  the value of the Retry-After header of the response, a string
\*            as every header value, or nothing
Outcome(exc, status, headers) == [exc |-> exc, status |-> status, headers |-> headers]

Outcomes ==
    { Outcome("", 200, <<>>),
      Outcome("ConnectionError", 0, <<>>),
      Outcome("Timeout", 0, <<>>),
      Outcome("HTTPError", 404, <<>>),
      Outcome("HTTPError", 429, <<>>),
      Outcome("HTTPError", 429, <<"2">>),
      Outcome("HTTPError", 500, <<>>) }

\* line 83: e.response.headers.get('Retry-After', 1): the header's string,
\* or the integer 1
headers_get_retry_after(headers) ==
    IF headers # <<>> THEN [type |-> "str", value |-> headers[1]]
    ELSE [type |-> "int", value |-> "1"]

\* time.sleep(secs) takes a number: a string raises TypeError
sleep(secs) == IF secs.type = "str" THEN "TypeError" ELSE ""

\* What get_with_retry returns (exc = "") or raises
Result(exc, status) == [exc |-> exc, status |-> status]

InitRetry ==
    /\ r_retries \in 0..MaxRetries
    /\ r_attempt = 0
    /\ r_outcomes = <<>>
    /\ r_slept = <<>>
    /\ r_result = Result("", 0)
    /\ r_pc = "loop"
    /\ tree = TranslationUnit(<<>>)
    /\ idx = 1
    /\ out = <<>>
    /\ raised = ""
    /\ pc = "idle"
    /\ arg = <<>>
    /\ string = <<>>
    /\ npc = "idle"
    /\ SymbolsIdle
    /\ WalkIdle
    /\ PoolIdle
    /\ ChunkIdle

\* One round of `for attempt in range(retries + 1)` (lines 63-85), or the
\* else branch of the loop when the range is used up (lines 86-89)
get_with_retry_attempt ==
    /\ r_pc = "loop"
    /\ IF r_attempt > r_retries
       THEN /\ r_pc' = "raised"
            /\ r_result' = Result("RuntimeError", 0)
            /\ UNCHANGED <<r_attempt, r_outcomes, r_slept>>
       ELSE \E o \in Outcomes :
            /\ r_outcomes' = Append(r_outcomes, o)
            /\ LET retry_after == headers_get_retry_after(o.headers)
                   secs == IF o.exc = "HTTPError" /\ o.status = 429
                           THEN retry_after
                           ELSE [type |-> "int", value |-> "1"]
               IN  IF o.exc = ""
                   THEN /\ r_pc' = "returned"
                        /\ r_result' = Result("", o.status)
                        /\ UNCHANGED <<r_attempt, r_slept>>
                   ELSE IF r_attempt >= r_retries \/ o.status = 404
                   THEN /\ r_pc' = "raised"
                        /\ r_result' = Result(o.exc, o.status)
                        /\ UNCHANGED <<r_attempt, r_slept>>
                   ELSE IF sleep(secs) # ""
                   THEN /\ r_pc' = "raised"
                        /\ r_result' = Result(sleep(secs), 0)
                        /\ UNCHANGED <<r_attempt, r_slept>>
                   ELSE /\ r_slept' = Append(r_slept, secs.value)
                        /\ r_attempt' = r_attempt + 1
                        /\ UNCHANGED <<r_pc, r_result>>
    /\ UNCHANGED <<r_retries, parserVars, symbolVars, walkVars, poolVars,
                   chunkVars>>

NextRetry == get_with_retry_attempt

SpecRetry == InitRetry /\ [][NextRetry]_vars

(***************************************************************************)
(* Reading a tree from the root down, to say what a function definition    *)
(* declares independently of how the parser walks up from the leaves       *)
(***************************************************************************)
WrapperTypes ==
    {"pointer_declarator", "reference_declarator", "array_declarator",
     "parenthesized_declarator"}

\* The declarator directly inside the node at p: a sequence of one path, or
\* of none
NestedDeclarator(t, p) ==
    LET cs == NodeAt(t, p).children
        I == {i \in 1..Len(cs) :
                 \/ cs[i].field = "declarator"
                 \/ cs[i].type \in WrapperTypes \cup {"function_declarator", "identifier"}}
    IN  IF I = {} THEN <<>> ELSE <<Append(p, Min(I))>>

\* The wrappers below the node at p, outermost first
RECURSIVE WrappersBelow(_, _)
WrappersBelow(t, p) ==
    LET d == NestedDeclarator(t, p)
    IN  IF d = <<>> \/ NodeType(t, d[1]) \notin WrapperTypes THEN <<>>
        ELSE <<d[1]>> \o WrappersBelow(t, d[1])

\* What the wrappers below the node at p are wrapped around: one path or none
RECURSIVE InnermostDeclarator(_, _)
InnermostDeclarator(t, p) ==
    LET d == NestedDeclarator(t, p)
    IN  IF d = <<>> THEN <<>>
        ELSE IF NodeType(t, d[1]) \in WrapperTypes THEN InnermostDeclarator(t, d[1])
        ELSE d

ChildrenOfType(t, p, types) ==
    SelectSeq(NodeChildren(t, p), LAMBDA x : NodeType(t, x) \in types)

CountOf(c, s) == Cardinality({i \in 1..Len(s) : s[i] = c})

\* The named scopes of the given kinds around the node at p, outermost first
RECURSIVE ScopeNamesFrom(_, _, _, _)
ScopeNamesFrom(t, p, k, kinds) ==
    IF k >= Len(p) THEN <<>>
    ELSE LET scope == SubSeq(p, 1, k)
             name == child_by_field_name(t, scope, "name")
         IN  (IF NodeType(t, scope) \in kinds /\ name # None
                 THEN <<NodeText(t, name)>> ELSE <<>>)
                 \o ScopeNamesFrom(t, p, k + 1, kinds)

\* The type a declaration node declares: its qualifiers and base type in
\* normal form, then for each wrapper from the outermost to the innermost
\* its marker (* for a pointer and for an array, & or && for a reference)
\* and, after a space, its qualifier
RECURSIVE DeclaredMarkers(_, _)
DeclaredMarkers(t, wrappers) ==
    IF wrappers = <<>> THEN <<>>
    ELSE LET w == Head(wrappers)
             quals == ChildrenOfType(t, w, {"type_qualifier"})
             marker ==
                 CASE NodeType(t, w) \in {"pointer_declarator", "array_declarator"} -> <<"*">>
                   [] NodeType(t, w) = "reference_declarator" ->
                          NodeText(t, ChildrenOfType(t, w, {"&", "&&"})[1])
                   [] OTHER -> <<>>
         IN  marker \o (IF quals = <<>> THEN <<>> ELSE <<" ">> \o NodeText(t, quals[1]))
                 \o DeclaredMarkers(t, Tail(wrappers))

DeclaredBase(t, p) ==
    LET quals == ChildrenOfType(t, p, {"type_qualifier"})
    IN  normalize_string(
            Join([i \in 1..Len(quals) |-> NodeText(t, quals[i])]
                     \o <<NodeText(t, child_by_field_name(t, p, "type"))>>, <<" ">>))

DeclaredType(t, p) == DeclaredBase(t, p) \o DeclaredMarkers(t, WrappersBelow(t, p))

\* The nodes of the tree that are parameters with a name
NamedParameters(t) ==
    {q \in Range(Preorder(t, <<>>)) :
        /\ NodeType(t, q) \in {"parameter_declaration", "optional_parameter_declaration"}
        /\ InnermostDeclarator(t, q) # <<>>
        /\ NodeType(t, InnermostDeclarator(t, q)[1]) = "identifier"}

\* The function declarator of the function definition at fn: one path or none
OwnFunctionDeclarator(t, fn) ==
    SelectSeq(InnermostDeclarator(t, fn),
              LAMBDA d : NodeType(t, d) = "function_declarator")

Yielded == {out[i] : i \in 1..Len(out)}

IsPrefix(p, q) == Len(p) <= Len(q) /\ SubSeq(q, 1, Len(p)) = p

\* sub occurs in s as a run of consecutive characters
Occurs(sub, s) ==
    \E i \in 0..(Len(s) - Len(sub)) : SubSeq(s, i + 1, i + Len(sub)) = sub

\* The tree t without the children of the node at p whose type is in types
RECURSIVE Prune(_, _, _)
Prune(n, p, types) ==
    IF p = <<>>
    THEN [n EXCEPT !.children = SelectSeq(n.children, LAMBDA c : c.type \notin types)]
    ELSE [n EXCEPT !.children[Head(p)] = Prune(@, Tail(p), types)]

\* C3: normalize_string is idempotent: the second pass over its own result
\* returns the result of the first pass unchanged.
C3_NormalizeIdempotent ==
    npc = "pass2" => string = normalize_string(arg)

\* A second pass has run over a string that the first pass had to rewrite
\* (a space before a pointer marker, a comma and a template bracket).
C3_Witness ==
    /\ npc = "pass2"
    /\ arg = <<" ", "*", ",", ">">>
    /\ string = <<"*", ",", ">">>

(***************************************************************************)
(* Properties of parse_functions                                           *)
(***************************************************************************)
\* The function definition at fn has an ERROR node or a MISSING placeholder
\* somewhere in its subtree
RECURSIVE ContainsErrorNode(_)
ContainsErrorNode(n) ==
    \/ n.type = "ERROR"
    \/ n.missing
    \/ \E i \in 1..Len(n.children) : ContainsErrorNode(n.children[i])

Reconstructs(k) == parse_function(tree, function_matches(tree)[k]).exc = ""

WellFormed(k) == ~ContainsErrorNode(NodeAt(tree, function_matches(tree)[k]))

YieldedFor(k) == \E e \in Yielded : e.node = function_matches(tree)[k]

\* C1: iterating parse_functions to exhaustion never propagates an exception
\* to the consumer; a function definition whose reconstruction fails is
\* dropped alone: the iteration reaches the end of the matches and every
\* later function definition that reconstructs has been yielded.
C1_NoExceptionReachesConsumer ==
    /\ raised = ""
    /\ pc # "raised"
    /\ pc = "done" =>
          /\ idx = Len(function_matches(tree)) + 1
          /\ \A k \in 1..Len(function_matches(tree)) :
                WellFormed(k) /\ ~Reconstructs(k) =>
                    /\ ~YieldedFor(k)
                    /\ \A j \in (k + 1)..Len(function_matches(tree)) :
                          WellFormed(j) /\ Reconstructs(j) => YieldedFor(j)

\* The iteration is over, a function definition without a function
\* declarator was dropped and the function definition after it was yielded.
C1_Witness ==
    /\ pc = "done"
    /\ Len(function_matches(tree)) = 2
    /\ WellFormed(1)
    /\ parse_function(tree, function_matches(tree)[1]).exc = "ParseError"
    /\ YieldedFor(2)

\* C2: a function definition whose subtree contains an error or missing
\* node yields no record, and once the iteration is over every function
\* definition of the tree without such a node that reconstructs has its
\* record, whatever its siblings contain.
C2_ErrorFunctionsSkippedSiblingsKept ==
    /\ \A k \in 1..Len(function_matches(tree)) : ~WellFormed(k) => ~YieldedFor(k)
    /\ pc = "done" =>
          \A k \in 1..Len(function_matches(tree)) :
              WellFormed(k) /\ Reconstructs(k) =>
                  Cardinality({i \in 1..Len(out) :
                                  out[i].node = function_matches(tree)[k]}) = 1

\* The iteration is over; the first function definition holds a MISSING
\* placeholder and gave no record, the second one gave its record.
C2_Witness ==
    /\ pc = "done"
    /\ Len(function_matches(tree)) = 2
    /\ \E q \in Range(Preorder(tree, function_matches(tree)[1])) : NodeAt(tree, q).missing
    /\ ~YieldedFor(1)
    /\ YieldedFor(2)

(***************************************************************************)
(* Properties of the records parse_function builds                         *)
(***************************************************************************)
\* The text of the declarator field of the function declarator of fn
OwnDeclaratorText(fn) ==
    NodeText(tree, child_by_field_name(tree, OwnFunctionDeclarator(tree, fn)[1],
                                       "declarator"))

\* The names of the scopes of the given kinds around fn joined with "::",
\* then "::" and the text of the declarator field; that text alone when fn
\* is in no such scope
QualifiedText(fn, kinds, Name(_)) ==
    LET names == ScopeNamesFrom(tree, fn, 0, kinds)
    IN  IF names = <<>> THEN OwnDeclaratorText(fn)
        ELSE Join([i \in 1..Len(names) |-> Name(names[i])], <<"::">>)
                 \o <<"::">> \o OwnDeclaratorText(fn)

Verbatim(s) == s

\* C4 as stated: qualified_symbol_name is the names of the named namespace
\* and class ancestors, outermost first, joined with "::", followed by "::"
\* and the text of the function declarator's declarator field (that text
\* alone when there is no named scope).
C4_QualifiedNameIsRawText ==
    \A e \in Yielded :
        e.symbol.qualified_symbol_name =
            QualifiedText(e.node, {"namespace_definition", "class_specifier"}, Verbatim)

\* C4 amended: the same string, each scope name and then the whole string
\* being passed through normalize_string.
C4_QualifiedNameIsNormalizedText ==
    \A e \in Yielded :
        e.symbol.qualified_symbol_name =
            normalize_string(
                QualifiedText(e.node, {"namespace_definition", "class_specifier"},
                              normalize_string))

\* A function named Foo< T >::f inside namespace A { class B { } } was
\* yielded as A::B::Foo<T>::f.
C4_Witness ==
    \E e \in Yielded :
        /\ ScopeNamesFrom(tree, e.node, 0, {"namespace_definition", "class_specifier"})
               = << <<"A">>, <<"B">> >>
        /\ OwnDeclaratorText(e.node) = <<"Foo", "<", " ", "T", " ", ">", "::", "f">>
        /\ e.symbol.qualified_symbol_name
               = <<"A", "::", "B", "::", "Foo", "<", "T", ">", "::", "f">>

\* C5: a named struct around a function is a qualification scope like a
\* class: qualified_symbol_name is built from the names of the namespace,
\* class and struct ancestors.
C5_StructScopesQualify ==
    \A e \in Yielded :
        e.symbol.qualified_symbol_name =
            normalize_string(
                QualifiedText(e.node,
                              {"namespace_definition", "class_specifier",
                               "struct_specifier"},
                              normalize_string))

\* C6: the type _parse_type gives a named parameter has one "*" for each
\* array declarator of its declarator chain, at the position of that
\* declarator in the chain counted from the outermost, and neither the
\* brackets nor the size.
C6_ArrayDecaysToPointer ==
    \A e \in Yielded : \A q \in NamedParameters(tree) :
        IsPrefix(e.node, q) =>
            LET type == _parse_type(tree, q)
            IN  /\ type.exc = ""
                /\ type.val = DeclaredType(tree, q)
                /\ Range(type.val) \cap {"[", "]", "3"} = {}

\* The function f(int* x[3]) was yielded with the parameter type int**.
C6_Witness ==
    \E e \in Yielded :
        /\ OwnFunctionDeclarator(tree, e.node) # <<>>
        /\ LET list == child_by_field_name(tree, OwnFunctionDeclarator(tree, e.node)[1],
                                           "parameters")
           IN  NodeText(tree, list) = <<"(", "int", " ", "*", "x", "[", "3", "]", ")">>
        /\ e.symbol.param_list = << <<"int", "*", "*">> >>

\* The wrappers of the function declarator of fn are pointer declarators
\* without a qualifier
OnlyPlainPointers(fn) ==
    \A i \in 1..Len(WrappersBelow(tree, fn)) :
        /\ NodeType(tree, WrappersBelow(tree, fn)[i]) = "pointer_declarator"
        /\ ChildrenOfType(tree, WrappersBelow(tree, fn)[i], {"type_qualifier"}) = <<>>

\* C7: when the function declarator is wrapped in N >= 0 pointer
\* declarators without qualifiers, return_type is the base type followed at
\* once by N "*" characters, with no whitespace before or between them.
C7_PointerDepthNoSpaces ==
    \A e \in Yielded :
        OnlyPlainPointers(e.node) =>
            e.symbol.return_type =
                DeclaredBase(tree, e.node)
                    \o [i \in 1..Len(WrappersBelow(tree, e.node)) |-> "*"]

\* A function with the declared type map<k,\nv > behind MaxDepth pointer
\* declarators was yielded.
C7_Witness ==
    \E e \in Yielded :
        /\ OnlyPlainPointers(e.node)
        /\ Len(WrappersBelow(tree, e.node)) = MaxDepth
        /\ e.symbol.return_type =
               <<"map", "<", "k", ",", " ", "v", ">">> \o [i \in 1..MaxDepth |-> "*"]

\* The trailing type qualifiers of the function declarator of fn
TrailingQualifiers(fn) ==
    ChildrenOfType(tree, OwnFunctionDeclarator(tree, fn)[1], {"type_qualifier"})

ExceptionSpecifiers == {"throw_specifier", "noexcept"}

\* What follows the last ")" of s
AfterLastParenthesis(s) ==
    LET I == {i \in 1..Len(s) : s[i] = ")"}
        last == CHOOSE i \in I : \A j \in I : j <= i
    IN  SubSeq(s, last + 1, Len(s))

CanonicalOutput(symbol) ==
    {symbol.return_type, symbol.symbol_name, symbol.qualified_symbol_name,
     full_signature(symbol)}
        \cup Range(symbol.param_list) \cup Range(symbol.modifiers)

\* C8: a trailing const of the function declarator is in modifiers and
\* follows the closing parenthesis in full_signature, and it adds nothing to
\* return_type and param_list (they are those of the same function without
\* its trailing qualifiers); the text of an exception specifier is in no
\* field of the canonical output, which is that of the same function without
\* the specifier.
C8_TrailingConstOnlyInModifiers ==
    \A e \in Yielded :
        LET fd == OwnFunctionDeclarator(tree, e.node)[1]
            bare == parse_function(
                        Prune(tree, fd, {"type_qualifier"} \cup ExceptionSpecifiers),
                        e.node)
            unspecified == parse_function(Prune(tree, fd, ExceptionSpecifiers), e.node)
        IN  /\ \A i \in 1..Len(TrailingQualifiers(e.node)) :
                  LET const == NodeText(tree, TrailingQualifiers(e.node)[i])
                  IN  /\ const \in Range(e.symbol.modifiers)
                      /\ Occurs(const, AfterLastParenthesis(full_signature(e.symbol)))
            /\ bare.exc = ""
            /\ bare.val.return_type = e.symbol.return_type
            /\ bare.val.param_list = e.symbol.param_list
            /\ unspecified.exc = ""
            /\ CanonicalOutput(unspecified.val) = CanonicalOutput(e.symbol)
            /\ \A s \in CanonicalOutput(e.symbol) :
                  Range(s) \cap {"throw", "noexcept"} = {}

\* The function definition "const int f(const map<k,\nv >& x) const throw(){}"
\* was yielded.
C8_Witness ==
    \E e \in Yielded :
        /\ NodeText(tree, OwnFunctionDeclarator(tree, e.node)[1]) =
               <<"f", "(", "const", " ", "map", "<", "k", ",", "\n", "v", " ", ">",
                 " ", "&", "x", ")", " ", "const", " ", "throw", "(", ")">>
        /\ e.symbol.return_type = <<"const", " ", "int">>
        /\ e.symbol.modifiers = << <<"const">> >>
        /\ full_signature(e.symbol) =
               <<"const", " ", "int", " ", "f", "(", "const", " ", "map", "<", "k",
                 ",", " ", "v", ">", "&", ")", " ", "const">>

\* Each string of list followed by ", ", but for the last one
RECURSIVE CommaSeparated(_, _)
CommaSeparated(list, i) ==
    IF i > Len(list) THEN <<>>
    ELSE list[i] \o (IF i < Len(list) THEN <<",", " ">> ELSE <<>>)
             \o CommaSeparated(list, i + 1)

\* Each string of list with a space in front of it
RECURSIVE SpacePrefixed(_, _)
SpacePrefixed(list, i) ==
    IF i > Len(list) THEN <<>>
    ELSE <<" ">> \o list[i] \o SpacePrefixed(list, i + 1)

\* C9: full_signature is return_type, a space, qualified_symbol_name, "(",
\* the entries of param_list separated by ", ", ")", and then a space and
\* the modifiers separated by single spaces only when there are modifiers;
\* without modifiers it ends with ")".
C9_FullSignatureFormat ==
    \A e \in Yielded :
        LET s == e.symbol
            signature == full_signature(s)
        IN  /\ signature =
                   s.return_type \o <<" ">> \o s.qualified_symbol_name \o <<"(">>
                       \o CommaSeparated(s.param_list, 1) \o <<")">>
                       \o SpacePrefixed(s.modifiers, 1)
            /\ s.modifiers = <<>> => signature[Len(signature)] = ")"

\* A function of two parameters and no modifier was yielded; its signature
\* is "int f(int, int*)".
C9_Witness ==
    \E e \in Yielded :
        /\ e.symbol.modifiers = <<>>
        /\ full_signature(e.symbol) =
               <<"int", " ", "f", "(", "int", ",", " ", "int", "*", ")">>

\* The parameters of the function definition at fn: the parameter
\* declarations among the children of the parameters field of its function
\* declarator
OwnParameters(fn) ==
    ChildrenOfType(tree,
        child_by_field_name(tree, OwnFunctionDeclarator(tree, fn)[1], "parameters"),
        {"parameter_declaration", "optional_parameter_declaration"})

\* C10: param_list has one entry for each parameter declaration and optional
\* parameter declaration of the function's parameter list, in source order,
\* each the normalized reconstructed type of that parameter; a function
\* without parameters has an empty param_list.
C10_ParamListFollowsOwnParameters ==
    \A e \in Yielded :
        /\ Len(e.symbol.param_list) = Len(OwnParameters(e.node))
        /\ \A i \in 1..Len(OwnParameters(e.node)) :
              e.symbol.param_list[i] =
                  normalize_string(_parse_type(tree, OwnParameters(e.node)[i]).val)

(***************************************************************************)
(* Properties of the output of normalize_string                            *)
(***************************************************************************)
\* The positions of s that hold a comma which is not the last character
InnerCommas(s) == {i \in 1..(Len(s) - 1) : s[i] = ","}

\* At position i of s there is one space and then a character that is not
\* whitespace
OneSpaceThenText(s, i) ==
    /\ i + 1 <= Len(s)
    /\ s[i] = " "
    /\ ~IsSpace(s[i + 1])

\* C13 as stated: in the output of normalize_string every comma that is not
\* the last character is followed by exactly one space and then a
\* non-whitespace character.
C13_CommaThenOneSpace ==
    npc # "call" =>
        \A i \in InnerCommas(string) : OneSpaceThenText(string, i + 1)

\* C13 amended: every comma that is not the last character is followed
\* either directly by ">" or by exactly one space and then a non-whitespace
\* character, which is not ">".
C13_CommaThenOneSpaceUnlessClosing ==
    npc # "call" =>
        \A i \in InnerCommas(string) :
            \/ string[i + 1] = ">"
            \/ OneSpaceThenText(string, i + 1) /\ string[i + 2] # ">"

\* normalize_string was given ",a,>" and returned ", a,>".
C13_Witness ==
    /\ npc = "pass1"
    /\ arg = <<",", "a", ",", ">">>
    /\ string = <<",", " ", "a", ",", ">">>

\* C14 as stated: the output of normalize_string never contains a
\* whitespace character immediately before a "*" or "&".
C14_NoSpaceBeforePtrRef ==
    npc # "call" =>
        \A i \in 1..(Len(string) - 1) :
            string[i + 1] \in PtrRef => ~IsSpace(string[i])

\* C14 amended: a whitespace character stands immediately before a "*" or
\* "&" of the output only when it is the single space that follows a comma.
C14_NoSpaceBeforePtrRefUnlessComma ==
    npc # "call" =>
        \A i \in 1..(Len(string) - 1) :
            string[i + 1] \in PtrRef /\ IsSpace(string[i]) =>
                /\ string[i] = " "
                /\ i > 1
                /\ string[i - 1] = ","

\* normalize_string was given "a \t*" and returned "a*".
C14_Witness ==
    /\ npc = "pass1"
    /\ arg = <<"a", " ", "\t", "*">>
    /\ string = <<"a", "*">>

\* C15: the output of normalize_string contains no newline, no two adjacent
\* whitespace characters, no leading or trailing whitespace, no whitespace
\* directly after "<" and none directly before ">".
C15_WhitespaceNormalForm ==
    npc # "call" =>
        /\ "\n" \notin Range(string)
        /\ \A i \in 1..(Len(string) - 1) :
              /\ ~(IsSpace(string[i]) /\ IsSpace(string[i + 1]))
              /\ string[i] = "<" => ~IsSpace(string[i + 1])
              /\ string[i + 1] = ">" => ~IsSpace(string[i])
        /\ string # <<>> => ~IsSpace(string[1]) /\ ~IsSpace(string[Len(string)])

\* normalize_string was given "\n< \ta" and returned "<a".
C15_Witness ==
    /\ npc = "pass1"
    /\ arg = <<"\n", "<", " ", "a">>
    /\ string = <<"<", "a">>

(***************************************************************************)
(* Properties of FunctionSymbol                                            *)
(***************************************************************************)
CanonicalFields ==
    {"return_type", "symbol_name", "qualified_symbol_name", "param_list",
     "modifiers"}

\* C11: two FunctionSymbol records compare equal if and only if their
\* return_type, symbol_name, qualified_symbol_name, param_list and modifiers
\* are all equal, whatever their source_text.
C11_EqualIffCanonicalFieldsEqual ==
    returned.op = "__eq__" =>
        (returned.val <=> \A f \in CanonicalFields : lhs[f] = rhs[f])

\* The record extracted from "int f(int x){}" was compared with a record
\* built without source_text, and they are equal.
C11_Witness ==
    /\ returned.op = "__eq__"
    /\ returned.val
    /\ lhs.source_text = <<"int", " ", "f", "(", "int", " ", "x", ")">>
    /\ rhs.source_text = NoSourceText

\* C12: hashing a FunctionSymbol produced by the extractor succeeds, and
\* the hash is computed from return_type, symbol_name,
\* qualified_symbol_name, param_list and modifiers.
C12_HashSucceedsOverCanonicalFields ==
    returned.op = "__hash__" =>
        /\ returned.exc = ""
        /\ returned.val = <<lhs.return_type, lhs.symbol_name,
                            lhs.qualified_symbol_name, lhs.param_list,
                            lhs.modifiers>>

(***************************************************************************)
(* Order and number of the records of parse_functions                      *)
(***************************************************************************)
\* The node at p comes before the node at q in the source: p is an ancestor
\* of q, or p branches off to the left of q
RECURSIVE Before(_, _)
Before(p, q) ==
    IF q = <<>> THEN FALSE
    ELSE IF p = <<>> THEN TRUE
    ELSE IF Head(p) # Head(q) THEN Head(p) < Head(q)
    ELSE Before(Tail(p), Tail(q))

FunctionDefinitions(t) ==
    {q \in Range(Preorder(t, <<>>)) : NodeType(t, q) = "function_definition"}

\* The function definition at fn has no error or missing node and no
\* undecodable byte, it has a type, and its own function declarator names
\* the function with an identifier, a field identifier or an operator name
Complete(t, fn) ==
    /\ ~ContainsErrorNode(NodeAt(t, fn))
    /\ Decodable(NodeText(t, fn))
    /\ child_by_field_name(t, fn, "type") # None
    /\ OwnFunctionDeclarator(t, fn) # <<>>
    /\ \E q \in Range(Preorder(t, child_by_field_name(
                          t, OwnFunctionDeclarator(t, fn)[1], "declarator"))) :
          NodeType(t, q) \in {"identifier", "field_identifier", "operator_name"}

\* C16: every record of parse_functions comes from a function-definition
\* node, no node gives two records, the records are in the order of their
\* nodes in the source, and a source that consists of one well-formed
\* function definition gives exactly one record, with or without leading
\* type qualifiers.
C16_OnePerDefinitionInSourceOrder ==
    /\ \A i \in 1..Len(out) : out[i].node \in FunctionDefinitions(tree)
    /\ \A i, j \in 1..Len(out) : i < j => Before(out[i].node, out[j].node)
    /\ pc = "done" =>
          \A fn \in FunctionDefinitions(tree) :
              FunctionDefinitions(tree) = {fn} /\ Complete(tree, fn) =>
                  /\ Len(out) = 1
                  /\ out[1].node = fn

\* The source "const int *f(){}" was iterated to the end and gave one
\* record.
C16_Witness ==
    /\ pc = "done"
    /\ NodeText(tree, <<>>) = <<"const", " ", "int", " ", "*", "f", "(", ")", "{", "}">>
    /\ Len(out) = 1
    /\ out[1].symbol.return_type = <<"const", " ", "int", "*">>

(***************************************************************************)
(* Properties of parse_string_literals                                     *)
(***************************************************************************)
\* The nodes above the node at p, read off its path
Enclosing(p) == {SubSeq(p, 1, k) : k \in 0..(Len(p) - 1)}

StatementTypes == {"declaration", "expression_statement"}

\* The statements around the node at p
EnclosingStatements(t, p) == {a \in Enclosing(p) : NodeType(t, a) \in StatementTypes}

\* The innermost of them
SmallestEnclosingStatement(t, p) ==
    CHOOSE a \in EnclosingStatements(t, p) :
        \A b \in EnclosingStatements(t, p) : Len(b) <= Len(a)

StringLiterals(t) ==
    {q \in Range(Preorder(t, <<>>)) : NodeType(t, q) = "string_literal"}

InsideInclude(t, p) == \E a \in Enclosing(p) : NodeType(t, a) = "preproc_include"

\* C17: no record of parse_string_literals comes from a string literal that
\* has an include directive among its ancestors, at any distance and
\* whatever else encloses it.
C17_NoLiteralFromInclude ==
    \A e \in Yielded :
        /\ e.node \in StringLiterals(tree)
        /\ ~InsideInclude(tree, e.node)

\* The source "auto g = [] {\n#include M("a.h")\n};" was iterated to the
\* end: its literal lies two levels below an include directive that is
\* itself inside a declaration, and it gave no record.
C17_Witness ==
    /\ pc = "done"
    /\ out = <<>>
    /\ \E q \in StringLiterals(tree) :
          /\ InsideInclude(tree, q)
          /\ NodeType(tree, NodeParent(q)) # "preproc_include"
          /\ EnclosingStatements(tree, q) # {}

\* C18: the value of every StringLiteral record is the trimmed text of the
\* innermost declaration or expression statement around its literal: a
\* node above the literal, never the literal node itself and never a
\* statement further out.
C18_ValueIsSmallestEnclosingStatement ==
    \A e \in Yielded :
        /\ EnclosingStatements(tree, e.node) # {}
        /\ e.node \notin EnclosingStatements(tree, e.node)
        /\ e.literal.value =
               strip(NodeText(tree, SmallestEnclosingStatement(tree, e.node)))

\* The source "auto g = [] {\np("x", "y");\n};" gave the text of the inner
\* expression statement for its first literal.
C18_Witness ==
    /\ Len(out) >= 1
    /\ Cardinality(EnclosingStatements(tree, out[1].node)) = 2
    /\ NodeType(tree, <<1>>) = "declaration"
    /\ out[1].literal.value = <<"p", "(", "\"x\"", ",", " ", "\"y\"", ")", ";">>

(***************************************************************************)
(* Properties of parse_preproc_defs                                        *)
(***************************************************************************)
MacroDefinitions(t) ==
    {q \in Range(Preorder(t, <<>>)) : NodeType(t, q) = "preproc_def"}

\* The field f of the node at p: a sequence of its text, or of nothing when
\* the node has no such field
FieldText(t, p, f) ==
    LET cs == NodeAt(t, p).children
    IN  [i \in 1..Cardinality({j \in 1..Len(cs) : cs[j].field = f}) |->
            Text(cs[Min({j \in 1..Len(cs) : cs[j].field = f})])]

\* The macro definition at q has a name and a value, both decodable
Representable(t, q) ==
    /\ FieldText(t, q, "name") # <<>>
    /\ FieldText(t, q, "value") # <<>>
    /\ Decodable(FieldText(t, q, "name")[1])
    /\ Decodable(FieldText(t, q, "value")[1])

Above(p, i) == SubSeq(p, 1, Len(p) - i)

\* What ancestors(w_node) has yielded so far is the parent of the node,
\* then the parent of that, and so on, without the node itself; when the
\* generator has ended there is one node for each level of depth and the
\* last one is the root
AncestorsSoFar ==
    /\ Len(w_yielded) <= Len(w_node)
    /\ \A i \in 1..Len(w_yielded) : w_yielded[i] = Above(w_node, i)
    /\ w_node \notin Range(w_yielded)
    /\ w_pc = "done" =>
          /\ Len(w_yielded) = Len(w_node)
          /\ w_node # <<>> => w_yielded[Len(w_yielded)] = <<>>
          /\ w_yielded = ancestors(w_node)

\* C20: ancestors(node) yields, for a node at depth d, exactly d nodes: the
\* parent of the node first, then each successive parent, the root last;
\* never the node itself; nothing for the root; and it terminates.
C20_AncestorsParentToRootThenEnds ==
    []AncestorsSoFar /\ <>(w_pc = "done")

\* The walk from a node at depth 4 has ended after 4 nodes.
C20_Witness ==
    /\ w_pc = "done"
    /\ Len(w_node) = 4
    /\ w_yielded = <<Above(w_node, 1), Above(w_node, 2), Above(w_node, 3), <<>> >>

(***************************************************************************)
(* Properties of _parse_type and parse_function, continued                 *)
(***************************************************************************)
\* The pointer and reference characters of a type string, in order
MarkersOf(type) == SelectSeq(type, LAMBDA c : c \in PtrRef)

\* The markers the wrappers stand for, read from the outermost wrapper to
\* the innermost: * for a pointer and for an array, & or && for a reference
RECURSIVE OwnMarkers(_, _)
OwnMarkers(t, wrappers) ==
    IF wrappers = <<>> THEN <<>>
    ELSE LET w == Head(wrappers)
         IN  (CASE NodeType(t, w) \in {"pointer_declarator", "array_declarator"} -> <<"*">>
                [] NodeType(t, w) = "reference_declarator" ->
                       NodeText(t, ChildrenOfType(t, w, {"&", "&&"})[1])
                [] OTHER -> <<>>)
                 \o OwnMarkers(t, Tail(wrappers))

\* The named parameters of the function definition at fn
NamedParametersOf(t, fn) == {q \in NamedParameters(t) : IsPrefix(fn, q)}

\* C25: the pointer, reference and array markers of a reconstructed type
\* are those of the wrappers between the outer node (the function
\* definition, the parameter) and its inner declarator and of no node
\* above the outer node, from the outermost wrapper to the innermost.
C25_MarkersBetweenOutermostFirst ==
    \A e \in Yielded :
        /\ OwnFunctionDeclarator(tree, e.node) # <<>> =>
              MarkersOf(e.symbol.return_type)
                  = OwnMarkers(tree, WrappersBelow(tree, e.node))
        /\ \A q \in NamedParametersOf(tree, e.node) :
              MarkersOf(_parse_type(tree, q).val)
                  = OwnMarkers(tree, WrappersBelow(tree, q))

\* The function "int *&f(int *x[3]){}" was yielded with the return type
\* int*& and the parameter type int**.
C25_Witness ==
    \E e \in Yielded :
        /\ NodeText(tree, e.node) =
               <<"int", " ", "*", "&", "f", "(", "int", " ", "*", "x", "[", "3", "]", ")",
                 "{", "}">>
        /\ e.symbol.return_type = <<"int", "*", "&">>
        /\ e.symbol.param_list = << <<"int", "*", "*">> >>

\* The markers and qualifiers of the wrappers, outermost first: after the
\* marker of a wrapper come all the type qualifiers of that wrapper, each
\* after a space
RECURSIVE DeclaredMarkersAllQualifiers(_, _)
DeclaredMarkersAllQualifiers(t, wrappers) ==
    IF wrappers = <<>> THEN <<>>
    ELSE LET w == Head(wrappers)
             quals == ChildrenOfType(t, w, {"type_qualifier"})
         IN  OwnMarkers(t, <<w>>)
                 \o SpacePrefixed([i \in 1..Len(quals) |-> NodeText(t, quals[i])], 1)
                 \o DeclaredMarkersAllQualifiers(t, Tail(wrappers))

\* C26: the reconstructed type has, for each wrapper of the declarator
\* chain, every type qualifier of that wrapper, after the wrapper's own
\* marker and before what the next inner wrapper contributes.
C26_EveryQualifierOfEachWrapper ==
    \A e \in Yielded :
        /\ OwnFunctionDeclarator(tree, e.node) # <<>> =>
              e.symbol.return_type =
                  DeclaredBase(tree, e.node)
                      \o DeclaredMarkersAllQualifiers(tree, WrappersBelow(tree, e.node))
        /\ \A q \in NamedParametersOf(tree, e.node) :
              _parse_type(tree, q).val =
                  DeclaredBase(tree, q)
                      \o DeclaredMarkersAllQualifiers(tree, WrappersBelow(tree, q))

\* The matches of parse_functions that have been handed to parse_function
Processed == 1..(idx - 1)

LacksFunctionDeclarator(t, fn) ==
    \A q \in Range(Preorder(t, fn)) : NodeType(t, q) # "function_declarator"

\* No identifier, field identifier or operator name in the subtree of the
\* first function declarator of fn
LacksIdentifier(t, fn) ==
    /\ ~LacksFunctionDeclarator(t, fn)
    /\ \A q \in Range(Preorder(t, Matches(t, fn, "_FUNCTION_DECLARATOR_QUERY")[1])) :
          NodeType(t, q) \notin {"identifier", "field_identifier", "operator_name"}

LacksParameterList(t, fn) ==
    \A q \in Range(Preorder(t, fn)) :
        ~(NodeType(t, q) = "parameter_list" /\ NodeAt(t, q).field = "parameters")

\* C27: parse_function returns a complete FunctionSymbol or raises, never a
\* bare IndexError; on a function node without a function declarator,
\* without an identifier-like node in the declarator or without a parameter
\* list it raises ParseError, whose text is the trimmed text of the node.
C27_MissingMatchRaisesParseError ==
    pc \in {"iterating", "done"} =>
        \A k \in Processed :
            LET fn == function_matches(tree)[k]
                r == parse_function(tree, fn)
            IN  /\ r.exc # "IndexError"
                /\ r.exc = "" =>
                      DOMAIN r.val = {"return_type", "symbol_name",
                                      "qualified_symbol_name", "param_list",
                                      "modifiers", "source_text"}
                /\ (\/ LacksFunctionDeclarator(tree, fn)
                    \/ LacksIdentifier(tree, fn)
                    \/ LacksParameterList(tree, fn)) =>
                      /\ r.exc = "ParseError"
                      /\ r.val = strip(NodeText(tree, fn))

\* C28: param_list is built from the parameter list that is the parameters
\* field of the function's own function declarator, also when another
\* parameter list comes earlier in the function definition.
C28_ParametersOfOwnDeclarator ==
    \A e \in Yielded :
        LET own == child_by_field_name(tree, OwnFunctionDeclarator(tree, e.node)[1],
                                       "parameters")
        IN  /\ Matches(tree, e.node, "_FUNCTION_PARAMETER_QUERY")[1] = own
            /\ e.symbol.param_list =
                   [i \in 1..Len(param_nodes(tree, own)) |->
                       normalize_string(_parse_type(tree, param_nodes(tree, own)[i]).val)]

\* The parameters of fn that have no identifier node in their subtree
UnnamedParametersOf(t, fn) ==
    {q \in Range(Preorder(t, fn)) :
        /\ NodeType(t, q) \in {"parameter_declaration", "optional_parameter_declaration"}
        /\ \A d \in Range(Preorder(t, q)) : NodeType(t, d) # "identifier"}

\* C29: for a parameter without an identifier _parse_type raises nothing and
\* returns the parameter's own qualifiers and base type, with no pointer,
\* reference or array marker, whatever abstract declarator it has.
C29_UnnamedParameterKeepsBaseOnly ==
    \A e \in Yielded : \A q \in UnnamedParametersOf(tree, e.node) :
        /\ _parse_type(tree, q).exc = ""
        /\ _parse_type(tree, q).val = DeclaredBase(tree, q)
        /\ MarkersOf(_parse_type(tree, q).val) = <<>>

\* The function "int *f(int *){}" was yielded: its parameter has an
\* abstract pointer declarator and the type int.
C29_Witness ==
    \E e \in Yielded :
        /\ NodeText(tree, e.node) =
               <<"int", " ", "*", "f", "(", "int", " ", "*", ")", "{", "}">>
        /\ UnnamedParametersOf(tree, e.node) # {}
        /\ e.symbol.param_list = << <<"int">> >>

\* The records that came from the string literal at q
RecordsOf(q) == {k \in 1..Len(out) : out[k].node = q}

\* The string literals of the matches the loop has gone through
ProcessedLiterals == {string_matches(tree)[k] : k \in Processed}

\* Not under an include directive, and inside a declaration or an
\* expression statement
Eligible(t, q) == ~InsideInclude(t, q) /\ EnclosingStatements(t, q) # {}

\* Records of literals of the same innermost statement have the same value
SameStatementSameValue ==
    \A i, j \in 1..Len(out) :
        (/\ EnclosingStatements(tree, out[i].node) # {}
         /\ EnclosingStatements(tree, out[j].node) # {}
         /\ SmallestEnclosingStatement(tree, out[i].node)
                = SmallestEnclosingStatement(tree, out[j].node))
            => out[i].literal.value = out[j].literal.value

\* The statement as made: one record for every string literal that is not
\* under an include directive and has an enclosing statement, none for the
\* others, and the iteration goes on to the end.
C30_OneRecordPerEligibleLiteralAsStated ==
    /\ raised = ""
    /\ \A q \in ProcessedLiterals :
          Cardinality(RecordsOf(q)) = IF Eligible(tree, q) THEN 1 ELSE 0
    /\ SameStatementSameValue

\* C30: parse_string_literals emits exactly one record for every string
\* literal that is not under an include directive and whose innermost
\* enclosing declaration or expression statement has a text that decodes,
\* and none for any other literal; the records of the literals of one
\* statement have the same value; nothing is raised, so the iteration goes
\* on after a literal that gives no record.
C30_OneRecordPerEligibleDecodableLiteral ==
    /\ raised = ""
    /\ \A q \in ProcessedLiterals :
          Cardinality(RecordsOf(q)) =
              IF /\ Eligible(tree, q)
                 /\ Decodable(NodeText(tree, SmallestEnclosingStatement(tree, q)))
              THEN 1 ELSE 0
    /\ SameStatementSameValue

\* The source "void f() {\nreturn "x";\n}\nvoid f() {\np("x", "y");\n}" was
\* iterated to the end: the literal of the return statement gave no record
\* and the two literals of the call gave two records of the same value.
C30_Witness ==
    /\ pc = "done"
    /\ Cardinality(StringLiterals(tree)) = 3
    /\ Len(out) = 2
    /\ out[1].node # out[2].node
    /\ out[1].literal.value = out[2].literal.value
    /\ \E q \in StringLiterals(tree) : ~Eligible(tree, q) /\ RecordsOf(q) = {}

(***************************************************************************)
(* Properties of bounded_run                                               *)
(***************************************************************************)
\* The futures that a wait() of bounded_run has returned as done
ObservedDone == Range(b_yielded) \cup b_done

NoDuplicates(s) == \A i, j \in 1..Len(s) : s[i] = s[j] => i = j

\* C21: the number of callables submitted whose futures no wait() has yet
\* returned as done never exceeds bound: at most bound are submitted before
\* the first wait(), and afterwards one for each future observed as done.
C21_InFlightWithinBound ==
    /\ Len(b_submitted) - Cardinality(ObservedDone) <= b_bound
    /\ ObservedDone = {} => Len(b_submitted) <= b_bound
    /\ Cardinality(Range(b_submitted) \ ObservedDone) <= b_bound

\* With more callables than bound, a future has been yielded, bound
\* callables are in flight and callables are still to be submitted.
C21_Witness ==
    /\ b_yielded # <<>>
    /\ Cardinality(Range(b_submitted) \ ObservedDone) = b_bound
    /\ Len(b_submitted) < Len(b_callables)

SubmittedOnceYieldedOnceWhenCompleted ==
    /\ NoDuplicates(b_submitted)
    /\ NoDuplicates(b_yielded)
    /\ Range(b_yielded) \subseteq Range(b_submitted)
    /\ \A k \in 1..Len(b_yielded) : b_state[b_yielded[k]] = "finished"
    /\ b_pc = "done" =>
          /\ b_submitted = [i \in 1..Len(b_callables) |-> i]
          /\ Range(b_yielded) = 1..Len(b_callables)

\* C22: whatever the order in which the callables complete, bounded_run
\* submits every callable once, yields every future once and only when it
\* has completed, futures of raising callables included, and, every
\* callable completing in the end, the generator ends after the last future.
C22_EveryFutureYieldedOnceThenEnds ==
    [](SubmittedOnceYieldedOnceWhenCompleted) /\ <>(b_pc = "done")

\* The generator ended after three callables with bound 2: the future of a
\* raising callable was yielded, and the first future yielded was not the
\* first one submitted.
C22_Witness ==
    /\ b_pc = "done"
    /\ Len(b_callables) = 3
    /\ b_bound = 2
    /\ \E i \in 1..3 : b_callables[i] = "raises"
    /\ Len(b_yielded) = 3
    /\ b_yielded[1] # 1

(***************************************************************************)
(* Properties of chunked_iter                                              *)
(***************************************************************************)
RECURSIVE Concatenated(_)
Concatenated(chunks) ==
    IF chunks = <<>> THEN <<>> ELSE Head(chunks) \o Concatenated(Tail(chunks))

\* C23: as long as the consumer has consumed every chunk before asking for
\* the next one, the chunks in order make up the items of the input taken
\* so far, every chunk before the newest has exactly chunk_size items, and
\* when the generator has ended the chunks make up the whole input, none
\* is empty, none has more than chunk_size items and the input is used up.
C23_ChunksPartitionTheInput ==
    c_full =>
        /\ Len(Concatenated(c_chunks)) <= Len(c_input)
        /\ Concatenated(c_chunks) = SubSeq(c_input, 1, Len(Concatenated(c_chunks)))
        /\ \A k \in 1..(Len(c_chunks) - 1) : Len(c_chunks[k]) = c_size
        /\ c_pc = "done" =>
              /\ Concatenated(c_chunks) = c_input
              /\ \A k \in 1..Len(c_chunks) : Len(c_chunks[k]) \in 1..c_size
              /\ c_pos = Len(c_input)
              /\ c_cache = <<>>

\* Three items in chunks of two, every chunk consumed: [1, 2] and [3],
\* then the generator ended.
C23_Witness ==
    /\ c_pc = "done"
    /\ c_full
    /\ c_size = 2
    /\ c_input = <<1, 2, 3>>
    /\ c_chunks = << <<1, 2>>, <<3>> >>

(***************************************************************************)
(* Properties of get_with_retry                                            *)
(***************************************************************************)
Successful(o) == o.exc = ""

NotFound(o) == o.exc = "HTTPError" /\ o.status = 404

\* C24: get_with_retry makes at most retries + 1 requests; it returns the
\* first successful response and asks no more; a request is followed by
\* another only when it failed otherwise than with a 404; it raises only
\* the error of its last request, which is a 404 or the request that used
\* up the attempts, so it goes on after any other failure, a 429 with a
\* Retry-After header included; RuntimeError is never raised.
C24_RetriesUntilAttemptsUsedUp ==
    /\ Len(r_outcomes) <= r_retries + 1
    /\ \A k \in 1..(Len(r_outcomes) - 1) :
          ~Successful(r_outcomes[k]) /\ ~NotFound(r_outcomes[k])
    /\ r_pc = "loop" => r_attempt = Len(r_outcomes) /\ r_attempt <= r_retries
    /\ r_pc = "returned" =>
          /\ Successful(r_outcomes[Len(r_outcomes)])
          /\ r_result = Result("", r_outcomes[Len(r_outcomes)].status)
    /\ r_pc = "raised" =>
          /\ r_outcomes # <<>>
          /\ LET last == r_outcomes[Len(r_outcomes)]
             IN  /\ ~Successful(last)
                 /\ r_result = Result(last.exc, last.status)
                 /\ NotFound(last) \/ Len(r_outcomes) = r_retries + 1
    /\ r_result.exc # "RuntimeError"

====
